---- MODULE Spec2Model ----
(***************************************************************************)
(* seastar-rs: the Distributed<S> service container and the dispatch      *)
(* primitives it is built on (submit_to, spawn), as a state machine.       *)
(*                                                                         *)
(* The user program is the environment: a root task on shard 0 starts the  *)
(* container, issues mapping operations, and stops it; every dispatched    *)
(* closure may itself issue mapping operations through the container       *)
(* handle of its PeeringShardedService[Mut].                               *)
(***************************************************************************)
EXTENDS Integers, Sequences, FiniteSets, TLC

\* ---------------------------------------------------------------- bounds
MaxShards == 2
MaxCalls == 2
MaxTasks == 3

VARIABLES
    engine_ready,   \* engine_is_ready(): the runtime-active oracle
    count,          \* smp::count, what get_count() returns
    entry,          \* the constructor called: "none", "start", "start_single"
    phase,          \* the container: "none", "starting", "active", "stopping", "stopped"
    single,         \* start_inner's `single` argument
    inst,           \* per shard: the native slot, "absent" | "live" | "stopped" | "freed"
    value,          \* per shard: the instance's content (BoolService.0)
    maker_calls,    \* per shard: how often service_maker ran there
    stop_calls,     \* per shard: how often Service::stop ran there
    locks,          \* Distributed::_locks: per shard, the RwLock the Arc points to
    rwlock,         \* per allocated RwLock: [readers, writer]
    calls,          \* the mapping operations issued so far, in order
    tasks,          \* the futures they returned, in order
    panicked,       \* "none", or the panic that aborted the process
    gate,           \* one Gate: [closed, close, holders, entered, last, waited]
    clock_now,      \* ManualClock::now(), in ticks
    timer,          \* one Timer<ManualClock>: [armed, at, period, calls]
    timer_log,      \* what the test observes of the timer since it was last armed
    arith,          \* one Duration / Instant operation: [a, b, op, checked, result]
    parse,          \* key-value store: one message buffer under try_parse_request
    kv              \* key-value store: the server's databases and connections

gateVars == <<gate>>

timerVars == <<clock_now, timer, timer_log>>

clockVars == <<arith>>

kvVars == <<parse, kv>>

libVars == <<gateVars, timerVars, clockVars, kvVars>>

distVars == <<count, entry, phase, single, inst, value, maker_calls,
              stop_calls, locks, rwlock, calls, tasks>>

vars == <<engine_ready, count, entry, phase, single, inst, value, maker_calls,
          stop_calls, locks, rwlock, calls, tasks, panicked, libVars>>

containerVars == <<phase, single, inst, maker_calls, stop_calls, locks>>

\* ------------------------------------------------------------- topology
get_count == count

AllShards == 0 .. (MaxShards - 1)

Shards == 0 .. (get_count - 1)

\* 0..get_count() as the iterator yields it
ShardRange == [i \in 1 .. get_count |-> i - 1]

\* the shard a caller runs on: the root task on shard 0, a dispatched
\* closure on the shard it was dispatched to
this_shard_id(p) == IF p = 0 THEN 0 ELSE tasks[p].target

\* -------------------------------------------------------------- helpers
TaskIds == 1 .. Len(tasks)

CallIds == 1 .. Len(calls)

CallOf(t) == calls[tasks[t].call]

ParentOf(t) == CallOf(t).p

ChildrenOf(p) == {t \in TaskIds : ParentOf(t) = p}

InFlight(t) == tasks[t].st \in {"submitted", "running", "completed"}

\* a caller that can act: the root task, or a closure whose future is running
Alive(p) == p = 0 \/ (p \in TaskIds /\ tasks[p].st = "running")

Callers == {p \in {0} \cup TaskIds : Alive(p)}

Running == panicked = "none"

Panic(msg) == panicked' = msg

\* ------------------------------------------------------------------ Init
\* Gate::new(): an open gate nobody has entered, close() not called
Gate_new == [closed |-> FALSE, close |-> "none", holders |-> {}, entered |-> 0,
             last |-> "none", waited |-> 0]

\* Timer::new() followed by set_callback of a counting callback
Timer_new == [armed |-> FALSE, at |-> 0, period |-> 0, calls |-> 0]

\* nothing armed yet: no arming time, no delay, no callback, no cancel
Log_new == [mode |-> "none", since |-> 0, delay |-> 0, period |-> 0,
            base |-> 0, cancelled |-> FALSE, cancel_ret |-> "none",
            stopped_at |-> 0, replaced |-> 0]

\* no arithmetic operation applied yet
Arith_new == [a |-> 0, b |-> 0, op |-> "none",
              checked |-> [some |-> FALSE, nanos |-> 0],
              result |-> [panic |-> FALSE, nanos |-> 0]]

\* Connection::new: an empty message, nothing parsed yet
Parse_new == [message |-> <<>>, more |-> <<>>, before |-> <<>>, res |-> "none",
              key |-> <<>>, value |-> <<>>, waited |-> FALSE]

\* Server::new on every shard (an empty db), no connection accepted
Kv_new == [hash |-> <<>>, db |-> [s \in AllShards |-> {}], last |-> {}, done |-> {},
           conns |-> <<>>, socks |-> <<>>,
           loops |-> [s \in AllShards |-> [pc |-> "none", failed |-> 0]]]

LibInit ==
    /\ parse = Parse_new
    /\ kv = Kv_new
    /\ gate = Gate_new
    /\ clock_now = 0
    /\ timer = Timer_new
    /\ timer_log = Log_new
    /\ arith = Arith_new

RuntimeInit ==
    /\ engine_ready \in BOOLEAN
    /\ count \in 1 .. MaxShards
    /\ entry = "none"
    /\ phase = "none"
    /\ single = FALSE
    /\ inst = [k \in AllShards |-> "absent"]
    /\ value = [k \in AllShards |-> FALSE]
    /\ maker_calls = [k \in AllShards |-> 0]
    /\ stop_calls = [k \in AllShards |-> 0]
    /\ locks = <<>>
    /\ rwlock = <<>>
    /\ calls = <<>>
    /\ tasks = <<>>
    /\ panicked = "none"

Init ==
    /\ LibInit
    /\ RuntimeInit

\* ------------------------------------------------- api_safety.rs, oracle
\* assert_runtime_is_running(): panics unless engine_is_ready()
assert_runtime_is_running == engine_ready

RuntimePanic == "Attempting to call a runtime-dependent function outside of a Seastar runtime"

\* ------------------------------------------------------ container: start
\* the shards ffi::start / ffi::start_single construct an instance on
StartTargets == IF single THEN {0} ELSE Shards

\* vec![Default::default(); get_count()]: the element is built once and
\* cloned into every position, and cloning an Arc shares its allocation
NewLocks == [k \in Shards |-> 0]

NewRwLocks == [l \in {0} |-> [readers |-> 0, writer |-> FALSE]]

start_inner(s) ==
    /\ Running
    /\ phase = "none"
    /\ IF ~assert_runtime_is_running
       THEN /\ Panic(RuntimePanic)
            /\ UNCHANGED <<phase, single>>
       ELSE /\ phase' = "starting"
            /\ single' = s
            /\ UNCHANGED panicked
    /\ UNCHANGED <<libVars, engine_ready, count, inst, value, maker_calls, stop_calls,
                   locks, rwlock, calls, tasks>>

\* fault variant of start: passes single = true
start_passes_single == entry' = "start" /\ start_inner(TRUE)

start == entry' = "start" /\ start_inner(FALSE)

\* fault variant of start_single: passes single = false
start_single_passes_all == entry' = "start_single" /\ start_inner(FALSE)

start_single == entry' = "start_single" /\ start_inner(TRUE)

\* the native start runs the maker on one targeted shard
ConstructOn(k) ==
    /\ Running
    /\ phase = "starting"
    /\ k \in StartTargets
    /\ inst[k] = "absent"
    /\ inst' = [inst EXCEPT ![k] = "live"]
    /\ maker_calls' = [maker_calls EXCEPT ![k] = @ + 1]
    /\ UNCHANGED <<libVars, engine_ready, count, entry, phase, single, value, stop_calls,
                   locks, rwlock, calls, tasks, panicked>>

\* fault variant of start_done: the container is returned before the
\* native start has resolved
start_done_early ==
    /\ Running
    /\ phase = "starting"
    /\ phase' = "active"
    /\ locks' = NewLocks
    /\ rwlock' = NewRwLocks
    /\ UNCHANGED <<libVars, engine_ready, count, entry, single, inst, value, maker_calls,
                   stop_calls, calls, tasks, panicked>>

\* fut.await is Ok(_): the Distributed value is built
start_done ==
    /\ Running
    /\ phase = "starting"
    /\ \A k \in StartTargets : inst[k] = "live"
    /\ phase' = "active"
    /\ locks' = NewLocks
    /\ rwlock' = NewRwLocks
    /\ UNCHANGED <<libVars, engine_ready, count, entry, single, inst, value, maker_calls,
                   stop_calls, calls, tasks, panicked>>

\* fut.await is Err(_) => panic!()
start_failed ==
    /\ Running
    /\ phase = "starting"
    /\ Panic("start failed")
    /\ UNCHANGED <<libVars, engine_ready, count, entry, phase, single, inst, value,
                   maker_calls, stop_calls, locks, rwlock, calls, tasks>>

\* ------------------------------------------------------- container: stop
\* stop is called once the container is no longer used: no closure of it
\* is in flight
Quiescent == \A t \in TaskIds : ~InFlight(t)

\* the native stop takes a container that was started and not yet stopped;
\* on any other it fails, and the failure reaches stop() as an Err
StopAccepted == phase = "active"

\* fault variant of stop: the result of ffi::stop is not unwrapped
stop_ignores_error ==
    /\ Running
    /\ phase \in {"active", "stopped"}
    /\ Quiescent
    /\ IF ~assert_runtime_is_running
       THEN /\ Panic(RuntimePanic)
            /\ UNCHANGED phase
       ELSE IF ~StopAccepted
       THEN UNCHANGED <<phase, panicked>>
       ELSE /\ phase' = "stopping"
            /\ UNCHANGED panicked
    /\ UNCHANGED <<libVars, engine_ready, count, entry, single, inst, value, maker_calls,
                   stop_calls, locks, rwlock, calls, tasks>>

\* stop(&self): assert_runtime_is_running, then ffi::stop(..).await.unwrap()
stop ==
    /\ Running
    /\ phase \in {"active", "stopped"}
    /\ Quiescent
    /\ IF ~assert_runtime_is_running
       THEN /\ Panic(RuntimePanic)
            /\ UNCHANGED phase
       ELSE IF ~StopAccepted
       THEN /\ Panic("stop failed")
            /\ UNCHANGED phase
       ELSE /\ phase' = "stopping"
            /\ UNCHANGED panicked
    /\ UNCHANGED <<libVars, engine_ready, count, entry, single, inst, value, maker_calls,
                   stop_calls, locks, rwlock, calls, tasks>>

\* fault variant of StopHook: the instance goes without its Service::stop
StopHook_skips_hook(k) ==
    /\ Running
    /\ phase = "stopping"
    /\ k \in Shards
    /\ inst[k] = "live"
    /\ inst' = [inst EXCEPT ![k] = "stopped"]
    /\ UNCHANGED <<libVars, engine_ready, count, entry, phase, single, value, maker_calls,
                   stop_calls, locks, rwlock, calls, tasks, panicked>>

\* stop_caller: Service::stop of the instance, awaited on its shard
StopHook(k) ==
    /\ Running
    /\ phase = "stopping"
    /\ k \in Shards
    /\ inst[k] = "live"
    /\ inst' = [inst EXCEPT ![k] = "stopped"]
    /\ stop_calls' = [stop_calls EXCEPT ![k] = @ + 1]
    /\ UNCHANGED <<libVars, engine_ready, count, entry, phase, single, value, maker_calls,
                   locks, rwlock, calls, tasks, panicked>>

\* dropper: the instance's memory is freed on its shard
Free(k) ==
    /\ Running
    /\ phase = "stopping"
    /\ k \in Shards
    /\ inst[k] = "stopped"
    /\ inst' = [inst EXCEPT ![k] = "freed"]
    /\ UNCHANGED <<libVars, engine_ready, count, entry, phase, single, value, maker_calls,
                   stop_calls, locks, rwlock, calls, tasks, panicked>>

stop_done ==
    /\ Running
    /\ phase = "stopping"
    /\ \A k \in Shards : inst[k] \in {"absent", "freed"}
    /\ phase' = "stopped"
    /\ UNCHANGED <<libVars, engine_ready, count, entry, single, inst, value, maker_calls,
                   stop_calls, locks, rwlock, calls, tasks, panicked>>

\* ffi::stop(..).await.unwrap() on an Err
stop_failed ==
    /\ Running
    /\ phase = "stopping"
    /\ Panic("stop failed")
    /\ UNCHANGED <<libVars, engine_ready, count, entry, phase, single, inst, value,
                   maker_calls, stop_calls, locks, rwlock, calls, tasks>>

\* -------------------------------------------------- std::sync::RwLock<()>
\* fault variant of try_read: try_write's condition, no holder at all
try_read_exclusive(l) == ~l.writer /\ l.readers = 0

\* try_read(): Err(WouldBlock) exactly when the lock is held exclusively
try_read(l) == ~l.writer

ReadLocked(l) == [l EXCEPT !.readers = @ + 1]

\* fault variant of ReadUnlocked: the guard is forgotten, not dropped
ReadUnlocked_leaks(l) == l

\* dropping a RwLockReadGuard
ReadUnlocked(l) == [l EXCEPT !.readers = @ - 1]

\* --------------------------------------------- container: mapping, issue
NextCall == Len(calls) + 1

\* Distributed::submit_to: the future it returns, not yet polled; its
\* closure takes the target's lock with try_read once it runs
submit_to(c, shard_id) ==
    [st |-> "created", call |-> c, target |-> shard_id, mut |-> FALSE,
     via |-> "submit",
     runs |-> 0, done |-> FALSE, ret |-> FALSE,
     src |-> 0, got |-> FALSE, failed |-> FALSE, gone |-> FALSE,
     box |-> "none"]

\* Distributed::submit_to_mut
submit_to_mut(c, shard_id) ==
    [st |-> "created", call |-> c, target |-> shard_id, mut |-> TRUE,
     via |-> "submit",
     runs |-> 0, done |-> FALSE, ret |-> FALSE,
     src |-> 0, got |-> FALSE, failed |-> FALSE, gone |-> FALSE,
     box |-> "none"]

\* fault variant of spawn_current: the task is started on shard 0
spawn_current_on_first(c, shard_id) ==
    [st |-> "created", call |-> c, target |-> 0, mut |-> FALSE,
     via |-> "spawn",
     runs |-> 0, done |-> FALSE, ret |-> FALSE,
     src |-> 0, got |-> FALSE, failed |-> FALSE, gone |-> FALSE,
     box |-> "none"]

\* the future of map_current's spawn(async move { .. })
spawn_current(c, shard_id) ==
    [st |-> "created", call |-> c, target |-> shard_id, mut |-> FALSE,
     via |-> "spawn",
     runs |-> 0, done |-> FALSE, ret |-> FALSE,
     src |-> 0, got |-> FALSE, failed |-> FALSE, gone |-> FALSE,
     box |-> "none"]

\* the future of map_current_mut's spawn(async move { .. })
spawn_current_mut(c, shard_id) ==
    [st |-> "created", call |-> c, target |-> shard_id, mut |-> TRUE,
     via |-> "spawn",
     runs |-> 0, done |-> FALSE, ret |-> FALSE,
     src |-> 0, got |-> FALSE, failed |-> FALSE, gone |-> FALSE,
     box |-> "none"]

\* fault variant of map_selected: the last shard of the iterator is left out
map_selected_drops_last(c, shards) ==
    [i \in 1 .. (Len(shards) - 1) |-> submit_to(c, shards[i])]

\* map_selected: one map_single future per shard, in the iterator's order
map_selected(c, shards) ==
    [i \in 1 .. Len(shards) |-> submit_to(c, shards[i])]

map_selected_mut(c, shards) ==
    [i \in 1 .. Len(shards) |-> submit_to_mut(c, shards[i])]

\* (0..get_count()).filter(|sh| sh.ne(&this_shard))
OtherShards(this_shard) ==
    SelectSeq(ShardRange, LAMBDA sh : sh # this_shard)

\* the shard argument of a call that takes none
NoShard == 0 - 1

\* a mapping operation called by p (the root task, or a running closure
\* through the container of its PeeringShardedService[Mut]): it asserts the
\* runtime and returns the futures futs
\* fault variant of Dispatch: the operation does not consult the oracle
Dispatch_unchecked(p, op, mut, arg, futs) ==
    /\ Running
    /\ phase = "active"
    /\ p \in Callers
    /\ calls' = Append(calls,
           [op |-> op, p |-> p, from |-> this_shard_id(p), mut |-> mut,
            arg |-> arg,
            first |-> Len(tasks) + 1,
            n |-> Len(futs)])
    /\ tasks' = tasks \o futs
    /\ UNCHANGED panicked
    /\ UNCHANGED <<libVars, engine_ready, count, entry, phase, single, inst, value,
                   maker_calls, stop_calls, locks, rwlock>>

Dispatch(p, op, mut, arg, futs) ==
    /\ Running
    /\ phase = "active"
    /\ p \in Callers
    /\ IF ~assert_runtime_is_running
       THEN /\ Panic(RuntimePanic)
            /\ UNCHANGED <<calls, tasks>>
       ELSE /\ calls' = Append(calls,
                  [op |-> op, p |-> p, from |-> this_shard_id(p), mut |-> mut,
                   arg |-> arg,
                   first |-> Len(tasks) + 1,
                   n |-> Len(futs)])
            /\ tasks' = tasks \o futs
            /\ UNCHANGED panicked
    /\ UNCHANGED <<libVars, engine_ready, count, entry, phase, single, inst, value,
                   maker_calls, stop_calls, locks, rwlock>>

\* a mapping operation of an arbitrary program, while calls and futures
\* are left within the bounds
Issue(p, op, mut, arg, futs) ==
    /\ Running
    /\ phase = "active"
    /\ p \in Callers
    /\ Len(calls) < MaxCalls
    /\ Len(tasks) + Len(futs) <= MaxTasks
    /\ Dispatch(p, op, mut, arg, futs)

\* fault variant of map_single: the closure is dispatched to the caller's
\* shard
map_single_on_caller(p, shard_id) ==
    /\ shard_id \in Shards
    /\ Issue(p, "map_single", FALSE, shard_id,
          <<submit_to(NextCall, this_shard_id(p))>>)

map_single(p, shard_id) ==
    /\ shard_id \in Shards
    /\ Issue(p, "map_single", FALSE, shard_id,
          <<submit_to(NextCall, shard_id)>>)

map_single_mut(p, shard_id) ==
    /\ shard_id \in Shards
    /\ Issue(p, "map_single_mut", TRUE, shard_id,
          <<submit_to_mut(NextCall, shard_id)>>)

\* fault variant of map_all: the range starts at 1
map_all_skips_first(p) ==
    Issue(p, "map_all", FALSE, NoShard,
          map_selected(NextCall, Tail(ShardRange)))

map_all(p) ==
    Issue(p, "map_all", FALSE, NoShard, map_selected(NextCall, ShardRange))

map_all_mut(p) ==
    Issue(p, "map_all_mut", TRUE, NoShard,
          map_selected_mut(NextCall, ShardRange))

\* fault variant of map_others: the filter is missing
map_others_includes_caller(p) ==
    Issue(p, "map_others", FALSE, NoShard, map_selected(NextCall, ShardRange))

map_others(p) ==
    Issue(p, "map_others", FALSE, NoShard,
          map_selected(NextCall, OtherShards(this_shard_id(p))))

map_others_mut(p) ==
    Issue(p, "map_others_mut", TRUE, NoShard,
          map_selected_mut(NextCall, OtherShards(this_shard_id(p))))

\* fault variant of map_current: the closure goes through the cross-shard
\* dispatch to the caller's own shard
map_current_via_submit(p) ==
    Issue(p, "map_current", FALSE, NoShard,
          <<submit_to(NextCall, this_shard_id(p))>>)

map_current(p) ==
    Issue(p, "map_current", FALSE, NoShard,
          <<spawn_current(NextCall, this_shard_id(p))>>)

map_current_mut(p) ==
    Issue(p, "map_current_mut", TRUE, NoShard,
          <<spawn_current_mut(NextCall, this_shard_id(p))>>)

\* the futures a call returned, in order
FutsOf(c) == [i \in 1 .. calls[c].n |-> calls[c].first + i - 1]

FutSet(c) == {FutsOf(c)[i] : i \in 1 .. calls[c].n}

\* the shards those futures target, in order
TargetsOf(c) == [i \in 1 .. calls[c].n |-> tasks[FutsOf(c)[i]].target]

\* --------------------------------------------- dispatch: submit_to, spawn
BorrowPanic(t) ==
    IF tasks[t].mut
    THEN "instance " \o ToString(tasks[t].target) \o " already borrowed"
    ELSE "instance " \o ToString(tasks[t].target) \o " already mutably borrowed"

\* Box::into_raw(Box::new(closure)): submit_to boxes its closure, spawn has
\* no boxed closure
into_raw(via) == IF via = "submit" THEN "boxed" ELSE "none"

\* fn_once_caller: Box::from_raw(raw_func)() takes the box back and calls it
fn_once_caller(b) ==
    IF b = "boxed" THEN "called" ELSE IF b = "none" THEN "none" ELSE "freed twice"

dropper_forgets(b) == b

\* dropper: let _ = Box::from_raw(raw_ptr) frees the box
dropper(b) ==
    IF b = "boxed" THEN "dropped" ELSE IF b = "none" THEN "none" ELSE "freed twice"

\* the first poll of the returned future: submit_to hands the boxed closure
\* to ffi::submit_to; spawn asserts the runtime and hands it to cpp_spawn
Poll(t) ==
    /\ Running
    /\ t \in TaskIds
    /\ tasks[t].st = "created"
    /\ Alive(ParentOf(t))
    /\ IF tasks[t].via = "spawn" /\ ~assert_runtime_is_running
       THEN /\ Panic(RuntimePanic)
            /\ UNCHANGED tasks
       ELSE /\ tasks' = [tasks EXCEPT ![t].st = "submitted",
                                     ![t].box = into_raw(tasks[t].via)]
            /\ UNCHANGED panicked
    /\ UNCHANGED <<libVars, engine_ready, count, entry, containerVars, value, rwlock, calls>>

\* fault variant of TransportFail: the error is handed to the caller as the
\* future's result
TransportFail_returns_error(t) ==
    /\ Running
    /\ t \in TaskIds
    /\ tasks[t].st = "submitted"
    /\ tasks' = [tasks EXCEPT ![t].failed = TRUE, ![t].box = dropper(@), ![t].st = "resolved"]
    /\ UNCHANGED <<libVars, engine_ready, count, entry, containerVars, value, rwlock, calls,
                   panicked>>

\* ffi::submit_to / cpp_spawn resolves to Err(_): dropper, panic!()
TransportFail(t) ==
    /\ Running
    /\ t \in TaskIds
    /\ tasks[t].st = "submitted"
    /\ tasks' = [tasks EXCEPT ![t].failed = TRUE, ![t].box = dropper(@)]
    /\ Panic("transport failed")
    /\ UNCHANGED <<libVars, engine_ready, count, entry, containerVars, value, rwlock, calls>>

\* fault variant of Begin: a closure waits while another future of the same
\* call is running
Begin_serialized(t) ==
    /\ Running
    /\ t \in TaskIds
    /\ tasks[t].st = "submitted"
    /\ \A u \in TaskIds \ {t} :
           tasks[u].call = tasks[t].call => tasks[u].st # "running"
    /\ LET k == tasks[t].target
           l == locks[k]
       IN  IF ~try_read(rwlock[l])
           THEN /\ Panic(BorrowPanic(t))
                /\ tasks' = [tasks EXCEPT ![t].box = fn_once_caller(@)]
                /\ UNCHANGED rwlock
           ELSE IF inst[k] # "live"
           THEN /\ Panic("no local instance")
                /\ rwlock' = [rwlock EXCEPT ![l] = ReadLocked(@)]
                /\ tasks' = [tasks EXCEPT ![t].box = fn_once_caller(@)]
           ELSE /\ rwlock' = [rwlock EXCEPT ![l] = ReadLocked(@)]
                /\ tasks' = [tasks EXCEPT ![t].st = "running",
                                         ![t].runs = @ + 1,
                                         ![t].box = fn_once_caller(@)]
                /\ UNCHANGED panicked
    /\ UNCHANGED <<libVars, engine_ready, count, entry, containerVars, value, calls>>

\* fault variant of Begin: the closure waits until nobody holds the lock
Begin_waits_for_token(t) ==
    /\ Running
    /\ t \in TaskIds
    /\ tasks[t].st = "submitted"
    /\ rwlock[locks[tasks[t].target]].readers = 0
    /\ LET k == tasks[t].target
           l == locks[k]
       IN  IF inst[k] # "live"
           THEN /\ Panic("no local instance")
                /\ rwlock' = [rwlock EXCEPT ![l] = ReadLocked(@)]
                /\ tasks' = [tasks EXCEPT ![t].box = fn_once_caller(@)]
           ELSE /\ rwlock' = [rwlock EXCEPT ![l] = ReadLocked(@)]
                /\ tasks' = [tasks EXCEPT ![t].st = "running",
                                         ![t].runs = @ + 1,
                                         ![t].box = fn_once_caller(@)]
                /\ UNCHANGED panicked
    /\ UNCHANGED <<libVars, engine_ready, count, entry, containerVars, value, calls>>

\* the closure starts on its target shard: try_read on the lock the caller
\* cloned, ffi::local, then func(pss)
Begin(t) ==
    /\ Running
    /\ t \in TaskIds
    /\ tasks[t].st = "submitted"
    /\ LET k == tasks[t].target
           l == locks[k]
       IN  IF ~try_read(rwlock[l])
           THEN /\ Panic(BorrowPanic(t))
                /\ tasks' = [tasks EXCEPT ![t].box = fn_once_caller(@)]
                /\ UNCHANGED rwlock
           ELSE IF inst[k] # "live"
           THEN /\ Panic("no local instance")
                /\ rwlock' = [rwlock EXCEPT ![l] = ReadLocked(@)]
                /\ tasks' = [tasks EXCEPT ![t].box = fn_once_caller(@)]
           ELSE /\ rwlock' = [rwlock EXCEPT ![l] = ReadLocked(@)]
                /\ tasks' = [tasks EXCEPT ![t].st = "running",
                                         ![t].runs = @ + 1,
                                         ![t].box = fn_once_caller(@)]
                /\ UNCHANGED panicked
    /\ UNCHANGED <<libVars, engine_ready, count, entry, containerVars, value, calls>>

\* fault variant of Mutate: the closure writes to the instance of the shard
\* the operation was called on
Mutate_callers_instance(t) ==
    /\ Running
    /\ t \in TaskIds
    /\ tasks[t].st = "running"
    /\ tasks[t].mut
    /\ ~value[CallOf(t).from]
    /\ value' = [value EXCEPT ![CallOf(t).from] = TRUE]
    /\ UNCHANGED <<libVars, engine_ready, count, entry, containerVars, rwlock, calls, tasks,
                   panicked>>

\* a mutating closure writes through its &mut S (BoolService::set)
Mutate(t) ==
    /\ Running
    /\ t \in TaskIds
    /\ tasks[t].st = "running"
    /\ tasks[t].mut
    /\ ~value[tasks[t].target]
    /\ value' = [value EXCEPT ![tasks[t].target] = TRUE]
    /\ UNCHANGED <<libVars, engine_ready, count, entry, containerVars, rwlock, calls, tasks,
                   panicked>>

\* the caller drops the future of a cross-shard dispatch whose closure is
\* running on the target shard: rx is dropped with it
Abandon(t) ==
    /\ Running
    /\ t \in TaskIds
    /\ tasks[t].via = "submit"
    /\ tasks[t].st = "running"
    /\ ~tasks[t].gone
    /\ Alive(ParentOf(t))
    /\ tasks' = [tasks EXCEPT ![t].gone = TRUE]
    /\ UNCHANGED <<libVars, engine_ready, count, entry, containerVars, value, rwlock, calls,
                   panicked>>

\* a future its owner no longer waits for: never polled, dropped, or awaited
\* to its result
Settled(u) ==
    \/ tasks[u].st \in {"created", "dropped", "resolved", "discarded"}
    \/ tasks[u].gone

\* what func(pss).await may return: a read of its own instance (0), or the
\* result of a future it awaited
Sources(t) == {0} \cup {u \in ChildrenOf(t) : tasks[u].st = "resolved"}

\* fault variant of Output: the result of the awaited future is lost, the
\* closure's own read is returned
Output_ignores_inner(t, s) == value[tasks[t].target]

Output(t, s) == IF s = 0 THEN value[tasks[t].target] ELSE tasks[s].got

\* fault variant of Complete: tx.send(..).unwrap(), which panics when the
\* receiver is gone
Complete_unwraps_send(t) ==
    /\ Running
    /\ t \in TaskIds
    /\ tasks[t].st = "running"
    /\ \A u \in ChildrenOf(t) : Settled(u)
    /\ IF tasks[t].gone
       THEN /\ Panic("send failed")
            /\ UNCHANGED tasks
       ELSE /\ \E s \in Sources(t) :
                   tasks' = [u \in TaskIds |->
                                IF u = t
                                THEN [tasks[u] EXCEPT !.st = "completed",
                                                      !.done = TRUE,
                                                      !.src = s,
                                                      !.ret = Output(t, s)]
                                ELSE IF u \in ChildrenOf(t)
                                        /\ tasks[u].st = "created"
                                THEN [tasks[u] EXCEPT !.st = "dropped"]
                                ELSE tasks[u]]
            /\ UNCHANGED panicked
    /\ rwlock' = [rwlock EXCEPT ![locks[tasks[t].target]] = ReadUnlocked(@)]
    /\ UNCHANGED <<libVars, engine_ready, count, entry, containerVars, value, calls>>

\* func(pss).await returns: the guard is dropped and the result is sent
\* back (tx.send(..).ok() / x_clone.set), discarded when the receiver is
\* gone; futures the closure never polled are dropped with it
Complete(t) ==
    /\ Running
    /\ t \in TaskIds
    /\ tasks[t].st = "running"
    /\ \A u \in ChildrenOf(t) : Settled(u)
    /\ \E s \in Sources(t) :
           tasks' = [u \in TaskIds |->
                        IF u = t
                        THEN [tasks[u] EXCEPT
                                 !.st = IF tasks[t].gone THEN "discarded"
                                                         ELSE "completed",
                                 !.done = TRUE,
                                 !.src = s,
                                 !.ret = Output(t, s)]
                        ELSE IF u \in ChildrenOf(t) /\ tasks[u].st = "created"
                        THEN [tasks[u] EXCEPT !.st = "dropped"]
                        ELSE tasks[u]]
    /\ rwlock' = [rwlock EXCEPT ![locks[tasks[t].target]] = ReadUnlocked(@)]
    /\ UNCHANGED panicked
    /\ UNCHANGED <<libVars, engine_ready, count, entry, containerVars, value, calls>>

\* fault variant of Resolve: the caller's future yields while the closure
\* is still running
Resolve_before_completion(t) ==
    /\ Running
    /\ t \in TaskIds
    /\ tasks[t].st = "running"
    /\ Alive(ParentOf(t))
    /\ tasks' = [tasks EXCEPT ![t].st = "resolved", ![t].got = tasks[t].ret]
    /\ UNCHANGED <<libVars, engine_ready, count, entry, containerVars, value, rwlock, calls,
                   panicked>>

\* the caller's await yields the result (rx.await.unwrap() / x.take())
Resolve(t) ==
    /\ Running
    /\ t \in TaskIds
    /\ tasks[t].st = "completed"
    /\ Alive(ParentOf(t))
    /\ tasks' = [tasks EXCEPT ![t].st = "resolved", ![t].got = tasks[t].ret]
    /\ UNCHANGED <<libVars, engine_ready, count, entry, containerVars, value, rwlock, calls,
                   panicked>>

\* ------------------------------------------------------------------ Next
AllCallers == 0 .. MaxTasks

AllTasks == 1 .. MaxTasks

Next ==
    \/ start
    \/ start_single
    \/ \E k \in AllShards : ConstructOn(k)
    \/ start_done
    \/ start_failed
    \/ stop
    \/ \E k \in AllShards : StopHook(k)
    \/ \E k \in AllShards : Free(k)
    \/ stop_done
    \/ stop_failed
    \/ \E p \in AllCallers, k \in AllShards : map_single(p, k)
    \/ \E p \in AllCallers, k \in AllShards : map_single_mut(p, k)
    \/ \E p \in AllCallers : map_all(p)
    \/ \E p \in AllCallers : map_all_mut(p)
    \/ \E p \in AllCallers : map_others(p)
    \/ \E p \in AllCallers : map_others_mut(p)
    \/ \E p \in AllCallers : map_current(p)
    \/ \E p \in AllCallers : map_current_mut(p)
    \/ \E t \in AllTasks : Poll(t)
    \/ \E t \in AllTasks : TransportFail(t)
    \/ \E t \in AllTasks : Begin(t)
    \/ \E t \in AllTasks : Mutate(t)
    \/ \E t \in AllTasks : Abandon(t)
    \/ \E t \in AllTasks : Complete(t)
    \/ \E t \in AllTasks : Resolve(t)

Spec == Init /\ [][Next]_vars

\* ------------------------------------- tests: shard-to-shard communication
\* test_many_to_many_comm and test_one_to_many_comm: the root starts the
\* container on every shard and maps a closure over all shards (or over
\* shard 0 alone); that closure maps the counting closure over all shards
\* and joins the futures
CommTasks == 1 .. (MaxShards + MaxShards * MaxShards)

comm_init == Init /\ engine_ready

\* distr.map_all(|pss| async { join_all(pss.container.map_all(..)).await })
comm_many ==
    /\ calls = <<>>
    /\ Dispatch(0, "map_all", FALSE, NoShard, map_selected(NextCall, ShardRange))

\* distr.map_single(0, |pss| async { join_all(pss.container.map_all(..)).await })
comm_one ==
    /\ calls = <<>>
    /\ Dispatch(0, "map_single", FALSE, 0, <<submit_to(NextCall, 0)>>)

\* pss.container.map_all(|pss| pss.instance.inc()) in an outer closure
comm_inner(p) ==
    /\ calls # <<>>
    /\ p \in FutSet(1)
    /\ ChildrenOf(p) = {}
    /\ Dispatch(p, "map_all", FALSE, NoShard, map_selected(NextCall, ShardRange))

\* an outer closure returns once join_all has every inner result
comm_Complete(t) ==
    /\ t \in TaskIds
    /\ ParentOf(t) = 0 =>
           /\ ChildrenOf(t) # {}
           /\ \A u \in ChildrenOf(t) : tasks[u].st = "resolved"
    /\ Complete(t)

NextComm ==
    \/ start
    \/ \E k \in AllShards : ConstructOn(k)
    \/ start_done
    \/ comm_many
    \/ comm_one
    \/ \E p \in CommTasks : comm_inner(p)
    \/ \E t \in CommTasks : Poll(t)
    \/ \E t \in CommTasks : Begin(t)
    \/ \E t \in CommTasks : comm_Complete(t)
    \/ \E t \in CommTasks : Resolve(t)

SpecComm == comm_init /\ [][NextComm]_vars /\ WF_vars(NextComm)

\* ------------------------------------------- the runtime-active oracle
\* engine_is_ready() is true only on a thread inside the runtime
\* (api_safety::tests): the program goes on outside of it
leave_runtime ==
    /\ Running
    /\ engine_ready
    /\ engine_ready' = FALSE
    /\ UNCHANGED <<libVars, count, entry, containerVars, value, rwlock, calls, tasks,
                   panicked>>

\* programs that start a container, map closures over it and may leave the
\* runtime at any point; the container is not stopped and no closure
\* mutates or is abandoned
NextOracle ==
    \/ start
    \/ start_single
    \/ \E k \in AllShards : ConstructOn(k)
    \/ start_done
    \/ leave_runtime
    \/ \E p \in AllCallers, k \in AllShards : map_single(p, k)
    \/ \E p \in AllCallers, k \in AllShards : map_single_mut(p, k)
    \/ \E p \in AllCallers : map_all(p)
    \/ \E p \in AllCallers : map_all_mut(p)
    \/ \E p \in AllCallers : map_others(p)
    \/ \E p \in AllCallers : map_others_mut(p)
    \/ \E p \in AllCallers : map_current(p)
    \/ \E p \in AllCallers : map_current_mut(p)
    \/ \E t \in AllTasks : Poll(t)
    \/ \E t \in AllTasks : TransportFail(t)
    \/ \E t \in AllTasks : Begin(t)
    \/ \E t \in AllTasks : Complete(t)
    \/ \E t \in AllTasks : Resolve(t)

SpecOracle == Init /\ [][NextOracle]_vars

\* ------------------------------------------------------------- gate.rs
MaxEnters == 3

HolderIds == 1 .. MaxEnters

gateFrame == UNCHANGED <<engine_ready, distVars, timerVars, clockVars, kvVars>>

\* ffi new_gate_holder: the native gate admits a holder unless it is closed
new_gate_holder(g) == IF g.closed THEN "Err" ELSE "Ok"

GateHolder_new_always_ok(native) == "Ok"

\* GateHolder::new: Ok(holder) => Ok(GateHolder), Err(_) => Err(GateClosedError)
GateHolder_new(native) == IF native = "Ok" THEN "Ok" ELSE "GateClosedError"

\* Gate::try_enter: no runtime assertion, the holder lives until it is dropped
try_enter ==
    /\ Running
    /\ gate.entered < MaxEnters
    /\ LET r == GateHolder_new(new_gate_holder(gate))
           h == gate.entered + 1
       IN gate' = [gate EXCEPT !.entered = h,
                               !.last = r,
                               !.holders = IF r = "Ok" THEN @ \cup {h} ELSE @]
    /\ UNCHANGED panicked
    /\ gateFrame

\* Drop of a GateHolder: the holder leaves the gate
leave(h) ==
    /\ Running
    /\ h \in gate.holders
    /\ gate' = [gate EXCEPT !.holders = @ \ {h}]
    /\ UNCHANGED panicked
    /\ gateFrame

\* Gate::close is an async fn, called at most once: the call only makes the
\* future
close ==
    /\ Running
    /\ gate.close = "none"
    /\ gate' = [gate EXCEPT !.close = "created"]
    /\ UNCHANGED panicked
    /\ gateFrame

close_poll_without_await ==
    /\ Running
    /\ gate.close = "created"
    /\ IF ~assert_runtime_is_running
       THEN /\ Panic(RuntimePanic)
            /\ UNCHANGED gate
       ELSE /\ gate' = [gate EXCEPT !.closed = TRUE, !.close = "resolved",
                                    !.waited = Cardinality(gate.holders)]
            /\ UNCHANGED panicked
    /\ gateFrame

\* first poll of the close future: the assertion, then ffi close_gate
close_poll ==
    /\ Running
    /\ gate.close = "created"
    /\ IF ~assert_runtime_is_running
       THEN /\ Panic(RuntimePanic)
            /\ UNCHANGED gate
       ELSE /\ gate' = [gate EXCEPT !.closed = TRUE, !.close = "pending",
                                    !.waited = Cardinality(gate.holders)]
            /\ UNCHANGED panicked
    /\ gateFrame

\* close_gate(..).await returns: the native future is ready once everybody
\* has left the gate
close_done ==
    /\ Running
    /\ gate.close = "pending"
    /\ gate.holders = {}
    /\ gate' = [gate EXCEPT !.close = "resolved"]
    /\ UNCHANGED panicked
    /\ gateFrame

NextGate ==
    \/ try_enter
    \/ \E h \in HolderIds : leave(h)
    \/ close
    \/ close_poll
    \/ close_done

SpecGate == Init /\ [][NextGate]_vars

\* ---------------------------------------------- timer.rs, ManualClock
MaxNow == 6

MaxDelay == 4

Delays == 1 .. MaxDelay

timerFrame == UNCHANGED <<engine_ready, distVars, gateVars, clockVars, kvVars>>

\* ManualClock::now()
ManualClock_now == clock_now

\* what the test keeps of an arming: the clock and the callback count at
\* that moment, the delay to the first expiration, the period, and the
\* expiration this arming replaced (0: the timer was not armed)
Observe(mode, delay, period) ==
    timer_log' = [mode |-> mode, since |-> ManualClock_now, delay |-> delay,
                  period |-> period, base |-> timer.calls, cancelled |-> FALSE,
                  cancel_ret |-> "none", stopped_at |-> 0,
                  replaced |-> IF timer.armed THEN timer.at ELSE 0]

\* native timer: arming sets the expiration and the period (0: none); an
\* armed timer must not be armed again, rearming cancels it first
ffi_arm(at, period, mode, re) ==
    IF ~assert_runtime_is_running
    THEN /\ Panic(RuntimePanic)
         /\ UNCHANGED <<timer, timer_log>>
    ELSE IF timer.armed /\ ~re
    THEN /\ Panic("timer already armed")
         /\ UNCHANGED <<timer, timer_log>>
    ELSE /\ timer' = [timer EXCEPT !.armed = TRUE, !.at = at, !.period = period]
         /\ Observe(mode, at - ManualClock_now, period)
         /\ UNCHANGED panicked

\* Timer::arm_at
arm_at(at) ==
    /\ Running
    /\ ffi_arm(at, 0, "once", FALSE)
    /\ UNCHANGED clock_now
    /\ timerFrame

\* Timer::arm_at_periodic
arm_at_periodic(at, period) ==
    /\ Running
    /\ ffi_arm(at, period, "periodic", FALSE)
    /\ UNCHANGED clock_now
    /\ timerFrame

rearm_at_as_arm_at(at) ==
    /\ Running
    /\ ffi_arm(at, 0, "once", FALSE)
    /\ UNCHANGED clock_now
    /\ timerFrame

\* Timer::rearm_at
rearm_at(at) ==
    /\ Running
    /\ ffi_arm(at, 0, "once", TRUE)
    /\ UNCHANGED clock_now
    /\ timerFrame

\* Timer::rearm_at_periodic
rearm_at_periodic(at, period) ==
    /\ Running
    /\ ffi_arm(at, period, "periodic", TRUE)
    /\ UNCHANGED clock_now
    /\ timerFrame

\* Timer::arm
arm(delta) == arm_at(ManualClock_now + delta)

arm_periodic_without_period(delta) == arm_at_periodic(ManualClock_now + delta, 0)

\* Timer::arm_periodic
arm_periodic(delta) == arm_at_periodic(ManualClock_now + delta, delta)

\* Timer::rearm
rearm(delta) == rearm_at(ManualClock_now + delta)

\* Timer::rearm_periodic
rearm_periodic(delta) == rearm_at_periodic(ManualClock_now + delta, delta)

\* Timer::armed
armed == timer.armed

\* Timer::get_timeout: None is -1
get_timeout == IF ~armed THEN 0 - 1 ELSE timer.at

\* Timer::cancel: no runtime assertion; true if the timer was armed
cancel ==
    /\ Running
    /\ timer' = [timer EXCEPT !.armed = FALSE]
    /\ timer_log' = [timer_log EXCEPT !.cancelled = TRUE,
                                      !.cancel_ret = IF armed THEN "true" ELSE "false",
                                      !.stopped_at = timer.calls]
    /\ UNCHANGED <<clock_now, panicked>>
    /\ timerFrame

\* how often an armed timer expires until the clock reads `now`: once when
\* it has no period, else once per period that has elapsed
Expirations(now) ==
    IF ~timer.armed \/ timer.at > now THEN 0
    ELSE IF timer.period = 0 THEN 1
    ELSE 1 + (now - timer.at) \div timer.period

\* ManualClock::advance: the clock moves and the expired timer runs its
\* callback; a timer without period is disarmed, a periodic one rearmed
advance(duration) ==
    /\ Running
    /\ clock_now + duration <= MaxNow
    /\ clock_now' = clock_now + duration
    /\ LET n == Expirations(clock_now + duration)
       IN timer' = [timer EXCEPT !.calls = @ + n,
                                 !.armed = IF n > 0 /\ timer.period = 0 THEN FALSE ELSE @,
                                 !.at = @ + n * timer.period]
    /\ UNCHANGED <<timer_log, panicked>>
    /\ timerFrame

NextTimer ==
    \/ \E d \in Delays : arm_at(ManualClock_now + d)
    \/ \E d \in Delays, p \in Delays : arm_at_periodic(ManualClock_now + d, p)
    \/ \E d \in Delays : rearm_at(ManualClock_now + d)
    \/ \E d \in Delays, p \in Delays : rearm_at_periodic(ManualClock_now + d, p)
    \/ \E delta \in Delays : arm(delta)
    \/ \E delta \in Delays : arm_periodic(delta)
    \/ \E delta \in Delays : rearm(delta)
    \/ \E delta \in Delays : rearm_periodic(delta)
    \/ cancel
    \/ \E duration \in Delays : advance(duration)

SpecTimer == Init /\ [][NextTimer]_vars

\* ------------------------------------- clocks.rs: Duration and Instant
\* nanos is an i64; the model keeps the signedness at a smaller width
Width == 4

MinInt == 0 - 2 ^ (Width - 1)

MaxInt == 2 ^ (Width - 1) - 1

Ints == MinInt .. MaxInt

InRange(x) == MinInt <= x /\ x <= MaxInt

\* two's complement wrap-around to the width
Wrap(x) == ((x - MinInt) % 2 ^ Width) + MinInt

Abs(x) == IF x < 0 THEN 0 - x ELSE x

\* integer division of the machine: the quotient is truncated towards zero
TruncDiv(x, y) ==
    IF (x < 0) = (y < 0) THEN Abs(x) \div Abs(y) ELSE 0 - (Abs(x) \div Abs(y))

None == [some |-> FALSE, nanos |-> 0]

Some(x) == [some |-> TRUE, nanos |-> x]

\* i64::checked_add / checked_sub / checked_mul / checked_div
i64_checked_add(x, y) == IF InRange(x + y) THEN Some(x + y) ELSE None

i64_checked_sub(x, y) == IF InRange(x - y) THEN Some(x - y) ELSE None

i64_checked_mul(x, y) == IF InRange(x * y) THEN Some(x * y) ELSE None

i64_checked_div(x, y) ==
    IF y = 0 \/ (x = MinInt /\ y = 0 - 1) THEN None ELSE Some(TruncDiv(x, y))

\* Option::unwrap, and `None => panic!()`
unwrap(o) == [panic |-> ~o.some, nanos |-> o.nanos]

\* Duration::checked_add / checked_sub / checked_mul / checked_div
Duration_checked_add(self, rhs) == i64_checked_add(self, rhs)

Duration_checked_sub(self, rhs) == i64_checked_sub(self, rhs)

Duration_checked_mul(self, rhs) == i64_checked_mul(self, rhs)

Duration_checked_div(self, rhs) == i64_checked_div(self, rhs)

Duration_add_wrapping(self, rhs) == [panic |-> FALSE, nanos |-> Wrap(self + rhs)]

\* impl Add / Sub / Mul<i64> / Div<i64> / Neg for Duration
Duration_add(self, rhs) == unwrap(Duration_checked_add(self, rhs))

Duration_sub(self, rhs) == unwrap(Duration_checked_sub(self, rhs))

Duration_mul(self, rhs) == unwrap(Duration_checked_mul(self, rhs))

Duration_div(self, rhs) == unwrap(Duration_checked_div(self, rhs))

Duration_neg(self) == unwrap(i64_checked_sub(0, self))

\* Instant::checked_add / checked_sub / checked_duration_since / duration_since
Instant_checked_add(self, duration) == i64_checked_add(self, duration)

Instant_checked_sub(self, duration) == i64_checked_sub(self, duration)

checked_duration_since(self, other) == i64_checked_sub(self, other)

duration_since(self, other) == unwrap(i64_checked_sub(self, other))

\* impl Add<Duration> / Sub<Duration> / Sub for Instant
Instant_add(self, duration) == unwrap(Instant_checked_add(self, duration))

Instant_sub(self, duration) == unwrap(Instant_checked_sub(self, duration))

Instant_sub_instant(self, other) == duration_since(self, other)

arithFrame == UNCHANGED <<engine_ready, distVars, gateVars, timerVars, kvVars, panicked>>

\* one operation on the operands drawn: the checked form and the operator
Apply(op, checked, result) ==
    /\ arith.op = "none"
    /\ arith' = [arith EXCEPT !.op = op, !.checked = checked, !.result = result]
    /\ arithFrame

add == Apply("add", Duration_checked_add(arith.a, arith.b), Duration_add(arith.a, arith.b))

sub == Apply("sub", Duration_checked_sub(arith.a, arith.b), Duration_sub(arith.a, arith.b))

mul == Apply("mul", Duration_checked_mul(arith.a, arith.b), Duration_mul(arith.a, arith.b))

div == Apply("div", Duration_checked_div(arith.a, arith.b), Duration_div(arith.a, arith.b))

neg == Apply("neg", Duration_checked_sub(0, arith.a), Duration_neg(arith.a))

instant_add == Apply("instant_add", Instant_checked_add(arith.a, arith.b),
                     Instant_add(arith.a, arith.b))

instant_sub == Apply("instant_sub", Instant_checked_sub(arith.a, arith.b),
                     Instant_sub(arith.a, arith.b))

instant_since == Apply("instant_since", checked_duration_since(arith.a, arith.b),
                       Instant_sub_instant(arith.a, arith.b))

\* tests::get_durations / get_instants: any two operands of the width
clock_init ==
    /\ gate = Gate_new
    /\ clock_now = 0
    /\ timer = Timer_new
    /\ timer_log = Log_new
    /\ arith \in {[Arith_new EXCEPT !.a = x, !.b = y] : x \in Ints, y \in Ints}
    /\ parse = Parse_new
    /\ kv = Kv_new
    /\ RuntimeInit

NextClock ==
    \/ add
    \/ sub
    \/ mul
    \/ div
    \/ neg
    \/ instant_add
    \/ instant_sub
    \/ instant_since

SpecClock == clock_init /\ [][NextClock]_vars

\* ----------------------------- examples/key-value-store: requests.rs
\* keys and values of the requests drawn have at most MaxWord letters
MaxWord == 1

NL == "\n"

\* the letters [a-z] stand for, and the characters of a message: the
\* letters of the two keywords, the separators, and one other character
Lower == {"a", "b"}

\* characters a corrupted byte is read as
Noise == {"$", NL, "X", "a"}

STORE == <<"S", "T", "O", "R", "E", "$">>

LOAD == <<"L", "O", "A", "D", "$">>

\* a regex anchored with ^ that begins with a literal
StartsWith(m, lit) == Len(m) >= Len(lit) /\ SubSeq(m, 1, Len(lit)) = lit

\* [a-z]* from position i: the position after the letters
RECURSIVE SkipLower(_, _)
SkipLower(m, i) == IF i <= Len(m) /\ m[i] \in Lower THEN SkipLower(m, i + 1) ELSE i

\* str::find(char): the first position of c, 0 for None
find(m, c) ==
    IF \E i \in 1 .. Len(m) : m[i] = c
    THEN CHOOSE i \in 1 .. Len(m) : m[i] = c /\ \A j \in 1 .. (i - 1) : m[j] # c
    ELSE 0

\* ^STORE\$[a-z]*\$[a-z]*\n
is_store_request(m) ==
    /\ StartsWith(m, STORE)
    /\ LET i == SkipLower(m, Len(STORE) + 1)
       IN /\ i <= Len(m)
          /\ m[i] = "$"
          /\ LET j == SkipLower(m, i + 1)
             IN j <= Len(m) /\ m[j] = NL

\* ^LOAD\$[a-z]*\n
is_load_request(m) ==
    /\ StartsWith(m, LOAD)
    /\ LET i == SkipLower(m, Len(LOAD) + 1)
       IN i <= Len(m) /\ m[i] = NL

could_become_store_request_without_value(m) ==
    IF Len(m) <= Len(STORE)
    THEN m = SubSeq(STORE, 1, Len(m))
    ELSE StartsWith(m, STORE) /\ SkipLower(m, Len(STORE) + 1) = Len(m) + 1

\* a prefix of STORE$, or ^STORE\$[a-z]*$, or ^STORE\$[a-z]*\$[a-z]*$
could_become_store_request(m) ==
    IF Len(m) <= Len(STORE)
    THEN m = SubSeq(STORE, 1, Len(m))
    ELSE \/ StartsWith(m, STORE) /\ SkipLower(m, Len(STORE) + 1) = Len(m) + 1
         \/ /\ StartsWith(m, STORE)
            /\ LET i == SkipLower(m, Len(STORE) + 1)
               IN /\ i <= Len(m)
                  /\ m[i] = "$"
                  /\ SkipLower(m, i + 1) = Len(m) + 1

\* a prefix of LOAD$, or ^LOAD\$[a-z]*$
could_become_load_request(m) ==
    IF Len(m) <= Len(LOAD)
    THEN m = SubSeq(LOAD, 1, Len(m))
    ELSE StartsWith(m, LOAD) /\ SkipLower(m, Len(LOAD) + 1) = Len(m) + 1

split_store_request_keeps_newline(m) ==
    LET msg == SubSeq(m, Len(STORE) + 1, Len(m))
        dollar == find(msg, "$")
        newline == find(msg, NL)
    IN [key |-> SubSeq(msg, 1, dollar - 1),
        value |-> SubSeq(msg, dollar + 1, newline - 1),
        rest |-> SubSeq(msg, newline, Len(msg))]

\* STORE$key$value\nrest to (key, value, rest)
split_store_request(m) ==
    LET msg == SubSeq(m, Len(STORE) + 1, Len(m))
        dollar == find(msg, "$")
        newline == find(msg, NL)
    IN [key |-> SubSeq(msg, 1, dollar - 1),
        value |-> SubSeq(msg, dollar + 1, newline - 1),
        rest |-> SubSeq(msg, newline + 1, Len(msg))]

\* LOAD$key\nrest to (key, rest)
split_load_request(m) ==
    LET newline == find(m, NL)
    IN [key |-> SubSeq(m, Len(LOAD) + 1, newline - 1),
        rest |-> SubSeq(m, newline + 1, Len(m))]

\* try_parse_request(&mut message): the result and the message left
try_parse_request(m) ==
    IF is_store_request(m)
    THEN LET s == split_store_request(m)
         IN [res |-> "Store", key |-> s.key, value |-> s.value, message |-> s.rest]
    ELSE IF is_load_request(m)
    THEN LET s == split_load_request(m)
         IN [res |-> "Load", key |-> s.key, value |-> <<>>, message |-> s.rest]
    ELSE IF could_become_store_request(m) \/ could_become_load_request(m)
    THEN [res |-> "None", key |-> <<>>, value |-> <<>>, message |-> m]
    ELSE [res |-> "Err", key |-> <<>>, value |-> <<>>, message |-> m]

parseFrame == UNCHANGED <<engine_ready, distVars, gateVars, timerVars, clockVars, kv,
                          panicked>>

\* process_message calls try_parse_request on the buffered message, again
\* after each request it returned
TryParse ==
    /\ parse.res \in {"none", "Store", "Load"}
    /\ LET r == try_parse_request(parse.message)
       IN parse' = [parse EXCEPT !.before = parse.message,
                                 !.message = r.message,
                                 !.res = r.res,
                                 !.key = r.key,
                                 !.value = r.value]
    /\ parseFrame

\* handle_connection: the next read brings the rest of the stream, which is
\* pushed to the message
Receive ==
    /\ parse.res = "None"
    /\ parse.more # <<>>
    /\ parse' = [parse EXCEPT !.message = parse.message \o parse.more,
                              !.more = <<>>,
                              !.res = "none",
                              !.waited = TRUE]
    /\ parseFrame

\* the words, requests and streams the messages are cut from
Words == UNION {[1 .. n -> Lower] : n \in 0 .. MaxWord}

EncodeStore(k, v) == STORE \o k \o <<"$">> \o v \o <<NL>>

EncodeLoad(k) == LOAD \o k \o <<NL>>

Requests == {EncodeStore(k, v) : k \in Words, v \in Words} \cup {EncodeLoad(k) : k \in Words}

\* what the peer may send after a request
Followers == {<<>>, EncodeLoad(<<"a">>), EncodeStore(<<"a">>, <<"b">>)}

Streams == {r \o t : r \in Requests, t \in Followers}

\* a transmission error in the last character received
Garble(m, c) == IF m = <<>> THEN m ELSE [m EXCEPT ![Len(m)] = c]

\* the stream cut after i bytes, the last byte received as c
Cut(s, i, c) ==
    [Parse_new EXCEPT !.message = Garble(SubSeq(s, 1, i), c),
                      !.more = SubSeq(s, i + 1, Len(s))]

Cuts(s) ==
    {Cut(s, 0, "X")}
        \cup UNION {{Cut(s, i, c) : c \in Noise \cup {s[i]}} : i \in 1 .. Len(s)}

Fragments == UNION {Cuts(s) : s \in Streams}

parse_init ==
    /\ RuntimeInit
    /\ engine_ready
    /\ count = 1
    /\ gate = Gate_new
    /\ clock_now = 0
    /\ timer = Timer_new
    /\ timer_log = Log_new
    /\ arith = Arith_new
    /\ kv = Kv_new
    /\ parse \in Fragments

NextParse ==
    \/ TryParse
    \/ Receive

SpecParse == parse_init /\ [][NextParse]_vars

\* ------------------------------------------- key-value store: connections
\* (src/examples/key-value-store/src/server.rs)
MaxConns == 2
MaxWire == 2
MaxSent == 3
MaxChunk == 8
MaxHash == 1

ConnIds == 1 .. MaxConns

Keys == {<<"a">>}

DONE == <<"D", "O", "N", "E", NL>>

NOTFOUND == <<"N", "O", "T", "F", "O", "U", "N", "D", NL>>

\* format!("FOUND${val}\n")
FOUND(val) == <<"F", "O", "U", "N", "D", "$">> \o val \o <<NL>>

StoreRequest_new(key, val) == [res |-> "Store", key |-> key, value |-> val]

LoadRequest_new(key) == [res |-> "Load", key |-> key, value |-> <<>>]

NoRequest == [res |-> "none", key |-> <<>>, value |-> <<>>]

Encode(r) == IF r.res = "Store" THEN EncodeStore(r.key, r.value) ELSE EncodeLoad(r.key)

\* the requests the peers send
PeerRequests ==
    {StoreRequest_new(<<"a">>, <<"a">>), StoreRequest_new(<<"a">>, <<"b">>),
     LoadRequest_new(<<"a">>)}

\* what a peer sends before it shuts down its side: some requests, then
\* possibly a byte that belongs to no request
Wires ==
    (UNION {[1 .. n -> PeerRequests] : n \in 0 .. MaxWire}) \X {<<>>, <<"X">>}

RECURSIVE Bytes(_)
Bytes(rs) == IF rs = <<>> THEN <<>> ELSE Encode(Head(rs)) \o Bytes(Tail(rs))

\* the offsets at which the requests of rs end
Ends(rs) == [i \in 1 .. Len(rs) |-> Len(Bytes(SubSeq(rs, 1, i)))]

\* Connection::new, with the peer's side of the socket and the history of
\* the connection
Connection_new ==
    [pc |-> "none", shard |-> 0, message |-> <<>>, req |-> NoRequest,
     result |-> {}, resp |-> <<>>, out |-> <<>>, closes |-> 0,
     wire |-> <<>>, sent |-> <<>>, ends |-> <<>>, rcvd |-> 0, taken |-> 0, fail |-> "none",
     expect |-> {}, must_find |-> FALSE]

kvFrame == UNCHANGED <<engine_ready, distVars, gateVars, timerVars, clockVars, parse,
                       panicked>>

Conn(c) == kv.conns[c]

\* HashMap::get(key).cloned(): the set of the value, empty for None
HashMap_get(map, key) == {p[2] : p \in {q \in map : q[1] = key}}

\* HashMap::insert(key, value)
HashMap_insert(map, key, val) == {q \in map : q[1] # key} \cup {<<key, val>>}

\* hasher.finish() as u32 % seastar::get_count()
get_storing_shard_id(key) == kv.hash[key] % get_count

RECURSIVE SentUpTo(_)
SentUpTo(c) == IF c = 0 THEN 0 ELSE Len(Conn(c).sent) + SentUpTo(c - 1)

\* the number of requests the peers of all connections send
TotalSent == SentUpTo(MaxConns)

\* the accepted socket, on which the peer sends w, is handed to
\* handle_connection on shard s
handle_connection(c, s, w) ==
    /\ Conn(c).pc = "none"
    /\ \A d \in 1 .. (c - 1) : Conn(d).pc # "none"
    /\ TotalSent + Len(w[1]) <= MaxSent
    /\ kv' = [kv EXCEPT !.conns[c].pc = "read",
                        !.conns[c].shard = s,
                        !.conns[c].wire = Bytes(w[1]) \o w[2],
                        !.conns[c].sent = w[1],
                        !.conns[c].ends = Ends(w[1])]
    /\ kvFrame

\* read(&conn.input) returns Ok(buffer) with the next n bytes, which are
\* pushed to the message
read_ok(c, n) ==
    /\ Conn(c).pc = "read"
    /\ n \in 1 .. Len(Conn(c).wire)
    /\ kv' = [kv EXCEPT !.conns[c].message = @ \o SubSeq(Conn(c).wire, 1, n),
                        !.conns[c].wire = SubSeq(@, n + 1, Len(@)),
                        !.conns[c].rcvd = @ + n,
                        !.conns[c].pc = "parse"]
    /\ kvFrame

\* read returns an empty buffer: end of stream
read_eof(c) ==
    /\ Conn(c).pc = "read"
    /\ Conn(c).wire = <<>>
    /\ kv' = [kv EXCEPT !.conns[c].pc = "close", !.conns[c].fail = "eof"]
    /\ kvFrame

\* read returns Err
read_err(c) ==
    /\ Conn(c).pc = "read"
    /\ kv' = [kv EXCEPT !.conns[c].pc = "close", !.conns[c].fail = "read"]
    /\ kvFrame

\* one turn of the loop of process_message
process_message(c) ==
    /\ Conn(c).pc = "parse"
    /\ LET r == try_parse_request(Conn(c).message)
       IN kv' = [kv EXCEPT
                    !.conns[c].message = r.message,
                    !.conns[c].req = IF r.res \in {"Store", "Load"}
                                     THEN [res |-> r.res, key |-> r.key, value |-> r.value]
                                     ELSE NoRequest,
                    !.conns[c].taken = IF r.res \in {"Store", "Load"} THEN @ + 1 ELSE @,
                    !.conns[c].must_find = r.res = "Load" /\ r.key \in kv.done,
                    !.conns[c].fail = IF r.res = "Err" THEN "malformed" ELSE @,
                    !.conns[c].pc = CASE r.res = "Err" -> "close"
                                      [] r.res = "None" -> "read"
                                      [] r.res = "Store" -> "store"
                                      [] r.res = "Load" -> "load"]
    /\ kvFrame

\* map_single(storage_id, insert) runs on the storing shard
process_store_request(c) ==
    /\ Conn(c).pc = "store"
    /\ LET storage_id == get_storing_shard_id(Conn(c).req.key)
       IN kv' = [kv EXCEPT !.db[storage_id] =
                               HashMap_insert(@, Conn(c).req.key, Conn(c).req.value),
                           !.last = HashMap_insert(@, Conn(c).req.key, Conn(c).req.value),
                           !.conns[c].resp = DONE,
                           !.conns[c].pc = "respond"]
    /\ kvFrame

process_load_request_on_current(c) ==
    /\ Conn(c).pc = "load"
    /\ LET load_result == HashMap_get(kv.db[Conn(c).shard], Conn(c).req.key)
       IN kv' = [kv EXCEPT !.conns[c].result = load_result,
                           !.conns[c].expect = HashMap_get(kv.last, Conn(c).req.key),
                           !.conns[c].resp = IF load_result = {} THEN NOTFOUND
                                             ELSE FOUND(CHOOSE val \in load_result : TRUE),
                           !.conns[c].pc = "respond"]
    /\ kvFrame

\* map_single(storage_id, get) runs on the storing shard
process_load_request(c) ==
    /\ Conn(c).pc = "load"
    /\ LET storage_id == get_storing_shard_id(Conn(c).req.key)
           load_result == HashMap_get(kv.db[storage_id], Conn(c).req.key)
       IN kv' = [kv EXCEPT !.conns[c].result = load_result,
                           !.conns[c].expect = HashMap_get(kv.last, Conn(c).req.key),
                           !.conns[c].resp = IF load_result = {} THEN NOTFOUND
                                             ELSE FOUND(CHOOSE val \in load_result : TRUE),
                           !.conns[c].pc = "respond"]
    /\ kvFrame

respond_ignores_error(c, outcome) ==
    /\ Conn(c).pc = "respond"
    /\ outcome \in {"ok", "write failed", "flush failed"}
    /\ kv' = [kv EXCEPT
                 !.conns[c].out = IF outcome = "ok" THEN Append(@, Conn(c).resp) ELSE @,
                 !.done = IF outcome = "ok" /\ Conn(c).req.res = "Store"
                          THEN @ \cup {Conn(c).req.key} ELSE @,
                 !.conns[c].req = NoRequest,
                 !.conns[c].resp = <<>>,
                 !.conns[c].result = {},
                 !.conns[c].expect = {},
                 !.conns[c].must_find = FALSE,
                 !.conns[c].fail = IF outcome = "ok" THEN @ ELSE "write",
                 !.conns[c].pc = "parse"]
    /\ kvFrame

\* respond: write, then flush_output; an error of either is a
\* ConnectionError, which ends process_message. out is what reached the peer
respond(c, outcome) ==
    /\ Conn(c).pc = "respond"
    /\ outcome \in {"ok", "write failed", "flush failed"}
    /\ kv' = [kv EXCEPT
                 !.conns[c].out = IF outcome = "ok" THEN Append(@, Conn(c).resp) ELSE @,
                 !.done = IF outcome = "ok" /\ Conn(c).req.res = "Store"
                          THEN @ \cup {Conn(c).req.key} ELSE @,
                 !.conns[c].req = NoRequest,
                 !.conns[c].resp = <<>>,
                 !.conns[c].result = {},
                 !.conns[c].expect = {},
                 !.conns[c].must_find = FALSE,
                 !.conns[c].fail = IF outcome = "ok" THEN @ ELSE "write",
                 !.conns[c].pc = IF outcome = "ok" THEN "parse" ELSE "close"]
    /\ kvFrame

\* let _ = close_output_stream(&conn.output).await
close_output_stream(c) ==
    /\ Conn(c).pc = "close"
    /\ kv' = [kv EXCEPT !.conns[c].closes = @ + 1, !.conns[c].pc = "closed"]
    /\ kvFrame

conn_init ==
    /\ RuntimeInit
    /\ engine_ready
    /\ gate = Gate_new
    /\ clock_now = 0
    /\ timer = Timer_new
    /\ timer_log = Log_new
    /\ arith = Arith_new
    /\ parse = Parse_new
    /\ count = MaxShards
    /\ \E h \in [Keys -> 0 .. MaxHash] :
           kv = [Kv_new EXCEPT !.hash = h, !.conns = [c \in ConnIds |-> Connection_new]]

NextConn ==
    \/ \E c \in ConnIds, s \in Shards, w \in Wires : handle_connection(c, s, w)
    \/ \E c \in ConnIds : \E n \in {MaxChunk, Len(Conn(c).wire)} : read_ok(c, n)
    \/ \E c \in ConnIds : read_eof(c)
    \/ \E c \in ConnIds : read_err(c)
    \/ \E c \in ConnIds : process_message(c)
    \/ \E c \in ConnIds : process_store_request(c)
    \/ \E c \in ConnIds : process_load_request(c)
    \/ \E c \in ConnIds, o \in {"ok", "write failed", "flush failed"} : respond(c, o)
    \/ \E c \in ConnIds : close_output_stream(c)

SpecConn == conn_init /\ [][NextConn]_vars

\* ------------------------------------------- key-value store: accept loop
\* (src/examples/key-value-store/src/server.rs, main.rs)
MaxAccepts == 3
MaxErrors == 2

\* main: map_all(|sharded| ShardedServer(sharded).run(5555)) and join_all:
\* run starts on shard s, listens and awaits the first accept
run(s) ==
    /\ kv.loops[s].pc = "none"
    /\ kv' = [kv EXCEPT !.loops[s].pc = "accept"]
    /\ kvFrame

\* accept resolves to Ok(socket). map_current(..) checks the runtime and
\* returns the future of spawn, an async fn, of which nothing has run; the
\* statement ends with `;`, so that future is dropped, with the closure and
\* the socket it owns, and the loop awaits the next accept
accept_ok(s) ==
    /\ kv.loops[s].pc = "accept"
    /\ Len(kv.socks) < MaxAccepts
    /\ assert_runtime_is_running
    /\ kv' = [kv EXCEPT !.socks = Append(@, [shard |-> s, handler |-> "dropped"])]
    /\ kvFrame

\* accept resolves to Err: `if let Ok(socket)` does not match
accept_err(s) ==
    /\ kv.loops[s].pc = "accept"
    /\ kv.loops[s].failed < MaxErrors
    /\ kv' = [kv EXCEPT !.loops[s].failed = @ + 1]
    /\ kvFrame

serve_init ==
    /\ RuntimeInit
    /\ engine_ready
    /\ gate = Gate_new
    /\ clock_now = 0
    /\ timer = Timer_new
    /\ timer_log = Log_new
    /\ arith = Arith_new
    /\ parse = Parse_new
    /\ kv = Kv_new

NextServe ==
    \/ \E s \in Shards : run(s)
    \/ \E s \in Shards : accept_ok(s)
    \/ \E s \in Shards : accept_err(s)

SpecServe == serve_init /\ [][NextServe]_vars

\* =============================================================== claims
\* a closure holds its target's token from the try_read of Begin until its
\* future completes
Holds(t) == tasks[t].st = "running"

HoldersOn(k) == {t \in TaskIds : Holds(t) /\ tasks[t].target = k}

MutHoldersOn(k) == {t \in HoldersOn(k) : tasks[t].mut}

SharedHoldersOn(k) == {t \in HoldersOn(k) : ~tasks[t].mut}

\* C1: a mutating operation on shard K whose closure reaches K while an
\* earlier mutating closure on K has started and not completed panics, and
\* two mutating closures never both run against K's instance.
C1_SecondMutatorPanics ==
    [][\A t \in AllTasks :
          (Begin(t) /\ tasks[t].mut /\ MutHoldersOn(tasks[t].target) # {})
              => (panicked' # "none" /\ tasks'[t].st # "running")]_vars

\* C2: for every shard K at most one mutating closure holds K's token, and
\* no non-mutating closure holds it together with a mutating one.
C2_SingleWriterInvariant ==
    \A k \in Shards :
        /\ Cardinality(MutHoldersOn(k)) <= 1
        /\ (MutHoldersOn(k) # {} => SharedHoldersOn(k) = {})

C4_ReaderPanicsUnderWriter ==
    [][\A t \in AllTasks :
          (Begin(t) /\ ~tasks[t].mut) =>
              IF MutHoldersOn(tasks[t].target) # {}
              THEN panicked' = "instance " \o ToString(tasks[t].target)
                                   \o " already mutably borrowed"
              ELSE panicked' # "instance " \o ToString(tasks[t].target)
                                   \o " already mutably borrowed"]_vars

\* C5: a mutating closure that starts on shard K while K's token is held
\* in any way (by a reader, by another mutator, or by the enclosing closure
\* that issued it) panics with 'instance K already borrowed' and does not
\* run.
C5_WriterPanicsUnderAnyHolder ==
    [][\A t \in AllTasks :
          (Begin(t) /\ tasks[t].mut /\ HoldersOn(tasks[t].target) # {})
              => (/\ panicked' = "instance " \o ToString(tasks[t].target)
                                     \o " already borrowed"
                  /\ tasks'[t].st # "running")]_vars

\* func(pss) has been invoked for t
Ran(t) == tasks[t].st \in {"running", "completed", "resolved", "discarded"}

\* every future of call c was awaited to its result
Joined(c) == \A t \in FutSet(c) : tasks[t].st = "resolved"

RECURSIVE SumOver(_, _)
SumOver(f, S) ==
    IF S = {} THEN 0
    ELSE LET x == CHOOSE y \in S : TRUE IN f[x] + SumOver(f, S \ {x})

\* tests::CounterService: inc (the mapped closure) and the stop hook each
\* add 1 to the shared counter
CounterValue ==
    Cardinality({t \in TaskIds : Ran(t)}) + SumOver(stop_calls, AllShards)

\* C6: start(maker) then stop() runs the maker exactly once on each of the N
\* shards and the stop hook exactly once per instance, on the shard that
\* owns the instance (and on no shard before its instance was made).
C6_StartStopCounts ==
    entry = "start" =>
        /\ \A k \in AllShards : stop_calls[k] <= maker_calls[k]
        /\ phase \in {"active", "stopping", "stopped"} =>
               \A k \in AllShards :
                   maker_calls[k] = IF k < count THEN 1 ELSE 0
        /\ phase = "stopped" =>
               \A k \in AllShards :
                   stop_calls[k] = IF k < count THEN 1 ELSE 0

C6_Witness ==
    /\ entry = "start"
    /\ phase = "stopped"
    /\ count >= 2
    /\ SumOver(maker_calls, AllShards) = count
    /\ SumOver(stop_calls, AllShards) = count

\* C7: start_single(maker) constructs exactly one instance, on shard 0, and
\* leaves every other slot unpopulated; the following stop() runs exactly
\* one stop hook, whatever the shard count.
C7_StartSingleCounts ==
    entry = "start_single" =>
        /\ phase \in {"active", "stopping", "stopped"} =>
               \A k \in AllShards :
                   maker_calls[k] = IF k = 0 THEN 1 ELSE 0
        /\ phase = "active" =>
               \A k \in AllShards :
                   inst[k] = IF k = 0 THEN "live" ELSE "absent"
        /\ phase = "stopped" =>
               /\ SumOver(stop_calls, AllShards) = 1
               /\ stop_calls[0] = 1

C7_Witness ==
    /\ entry = "start_single"
    /\ phase = "stopped"
    /\ count >= 2
    /\ SumOver(maker_calls, AllShards) = 1
    /\ SumOver(stop_calls, AllShards) = 1

\* C8: map_all(f) returns exactly N futures, the i-th for shard i-1, and
\* once all are joined f has been invoked exactly once on every shard; so
\* start, map_all(inc), join, stop leaves the counter at 2N.
C8_MapAllOncePerShard ==
    /\ \A c \in CallIds :
           calls[c].op = "map_all" =>
               /\ TargetsOf(c) = [i \in 1 .. count |-> i - 1]
               /\ Joined(c) =>
                      \A k \in Shards :
                          Cardinality({t \in FutSet(c) :
                                          Ran(t) /\ tasks[t].target = k}) = 1
    /\ (/\ entry = "start"
        /\ phase = "stopped"
        /\ Len(calls) = 1
        /\ calls[1].op = "map_all"
        /\ Joined(1)) => CounterValue = 2 * count

C8_Witness ==
    /\ entry = "start"
    /\ phase = "stopped"
    /\ count >= 2
    /\ Len(calls) = 1
    /\ calls[1].op = "map_all"
    /\ Joined(1)
    /\ CounterValue = 2 * count

FanOut(c) ==
    calls[c].op \in {"map_all", "map_all_mut", "map_others", "map_others_mut"}

\* C9: the closures of one map_all / map_others fan-out run concurrently:
\* each returned future can be polled while its caller runs, each
\* submitted closure can start on its shard whatever state the closures
\* for the other shards are in, and it then runs without waiting for any
\* of them.
C9_FanOutConcurrent ==
    /\ [](Running =>
            \A t \in TaskIds :
                FanOut(tasks[t].call) =>
                    /\ (tasks[t].st = "created" /\ Alive(ParentOf(t)))
                           => ENABLED Poll(t)
                    /\ tasks[t].st = "submitted" => ENABLED Begin(t))
    /\ [][\A t \in AllTasks :
             (Begin(t) /\ FanOut(tasks[t].call)
                       /\ inst[tasks[t].target] = "live")
                 => tasks'[t].st = "running"]_vars

\* C9 witness: two closures of the same fan-out are running at once
C9_Witness ==
    \E t, u \in TaskIds :
        /\ t # u
        /\ tasks[t].call = tasks[u].call
        /\ FanOut(tasks[t].call)
        /\ tasks[t].st = "running"
        /\ tasks[u].st = "running"

\* C10: map_others(f) and map_others_mut(f) called on shard K return exactly
\* N-1 futures, one for every shard except K, and none for K.
C10_MapOthersSkipsCaller ==
    \A c \in CallIds :
        calls[c].op \in {"map_others", "map_others_mut"} =>
            /\ calls[c].n = count - 1
            /\ \A k \in Shards \ {calls[c].from} :
                   Cardinality({t \in FutSet(c) : tasks[t].target = k}) = 1
            /\ \A t \in FutSet(c) :
                   /\ tasks[t].target \in Shards
                   /\ tasks[t].target # calls[c].from

\* C10 witness: map_others called by a closure on shard 1 ran f on shard 0
C10_Witness ==
    \E c \in CallIds :
        /\ calls[c].op = "map_others"
        /\ calls[c].from = 1
        /\ calls[c].n = count - 1
        /\ Joined(c)
        /\ \E t \in FutSet(c) : tasks[t].target = 0

\* ------------------------------------------------- claims C11 .. C20
\* the value t's closure read from its own instance is the value of the
\* instance of shard k (BoolService only ever goes from false to true)
ReadFrom(t, k) == (tasks[t].done /\ tasks[t].src = 0 /\ tasks[t].ret) => value[k]

\* the caller received exactly what the closure of t produced, after that
\* closure ran once and completed
Delivered(t) ==
    tasks[t].st = "resolved" =>
        (tasks[t].runs = 1 /\ tasks[t].done /\ tasks[t].got = tasks[t].ret)

\* C11: map_single(K, f) returns one future whose closure runs at most once,
\* on shard K (whatever the caller's shard), against shard K's instance; when
\* the future has resolved the closure ran exactly once and the caller holds
\* the value it produced.
C11_MapSingleOnceOnK ==
    \A c \in CallIds :
        calls[c].op = "map_single" =>
            /\ calls[c].n = 1
            /\ LET t == calls[c].first
               IN  /\ tasks[t].target = calls[c].arg
                   /\ tasks[t].via = "submit"
                   /\ tasks[t].runs <= 1
                   /\ Ran(t) => tasks[t].runs = 1
                   /\ ReadFrom(t, calls[c].arg)
                   /\ Delivered(t)

\* C11 witness: map_single(K, f) called from another shard than K has
\* resolved to true, the value an earlier mutation left on shard K.
C11_Witness ==
    \E c \in CallIds :
        /\ calls[c].op = "map_single"
        /\ calls[c].arg # calls[c].from
        /\ tasks[calls[c].first].st = "resolved"
        /\ tasks[calls[c].first].src = 0
        /\ tasks[calls[c].first].got

\* C12: map_current(f) and map_current_mut(f) return one future, made by
\* the same-shard spawn and never by the cross-shard dispatch, whose closure
\* runs at most once against the instance of the shard the call was made
\* on; when the future has resolved the closure ran exactly once and the
\* caller holds its result.
C12_MapCurrentViaSpawn ==
    \A c \in CallIds :
        calls[c].op \in {"map_current", "map_current_mut"} =>
            /\ calls[c].n = 1
            /\ LET t == calls[c].first
               IN  /\ tasks[t].via = "spawn"
                   /\ tasks[t].target = calls[c].from
                   /\ tasks[t].mut = (calls[c].op = "map_current_mut")
                   /\ tasks[t].runs <= 1
                   /\ Ran(t) => tasks[t].runs = 1
                   /\ ReadFrom(t, calls[c].from)
                   /\ Delivered(t)

\* C12 witness: a closure running on a shard other than 0 called
\* map_current and received the result of the closure spawned there.
C12_Witness ==
    \E c \in CallIds :
        /\ calls[c].op = "map_current"
        /\ calls[c].p # 0
        /\ calls[c].from # 0
        /\ tasks[calls[c].first].st = "resolved"
        /\ tasks[calls[c].first].runs = 1

\* the mutating closures that have been invoked on shard k
MutatorsOf(k) == {t \in TaskIds : tasks[t].mut /\ tasks[t].target = k /\ Ran(t)}

\* C13: when no closure is in flight on shard K any more after a mutating
\* one completed there, the next closure that starts on K does not panic
\* and runs; a value written to K's instance stays, and a closure that
\* completes after it reads it; an instance only changes on a shard that a
\* mutating operation targeted (so map_others_mut never changes the
\* instance of the shard it is called on).
C13_MutationVisibleAndLocal ==
    /\ [](\A k \in Shards : value[k] => MutatorsOf(k) # {})
    /\ [][/\ \A t \in AllTasks :
                (/\ Begin(t)
                 /\ inst[tasks[t].target] = "live"
                 /\ HoldersOn(tasks[t].target) = {}
                 /\ \E u \in MutatorsOf(tasks[t].target) : tasks[u].done)
                    => (panicked' = "none" /\ tasks'[t].st = "running")
          /\ \A t \in AllTasks :
                (Complete(t) /\ tasks'[t].src = 0 /\ value[tasks[t].target])
                    => tasks'[t].ret
          /\ \A k \in Shards : value[k] => value'[k]]_vars

\* C13 witness: a mutating operation on shard K was awaited to its end, and
\* an operation issued later on K resolved to true, read from K's instance,
\* while the instance of another shard is still false.
C13_Witness ==
    \E t, u \in TaskIds :
        /\ tasks[t].mut /\ tasks[t].st = "resolved"
        /\ tasks[u].call > tasks[t].call
        /\ tasks[u].target = tasks[t].target
        /\ ~tasks[u].mut
        /\ tasks[u].st = "resolved" /\ tasks[u].src = 0 /\ tasks[u].got
        /\ \E k \in Shards : ~value[k]

\* u is the future whose result the closure of t returned
Returned(t, u) == tasks[t].done /\ tasks[t].src = u

\* C14: when a closure f dispatched to shard A issues an operation g
\* through its container and returns g's result, f's future completes only
\* after g ran exactly once, on the shard it was sent to, and completed and
\* resolved; the value the caller of f receives is the value g produced.
C14_RecursiveDispatch ==
    \A t, u \in TaskIds :
        (ParentOf(u) = t /\ Returned(t, u)) =>
            /\ tasks[u].st = "resolved"
            /\ tasks[u].runs = 1
            /\ tasks[u].done
            /\ CallOf(u).from = tasks[t].target
            /\ CallOf(u).op \in {"map_single", "map_single_mut"}
                   => tasks[u].target = CallOf(u).arg
            /\ tasks[t].ret = tasks[u].ret
            /\ tasks[t].st = "resolved" => tasks[t].got = tasks[u].ret

\* C14 witness: map_single(A, f) from the root, f calling map_single(B, g)
\* with B another shard, has resolved with the result of g.
C14_Witness ==
    \E t, u \in TaskIds :
        /\ ParentOf(t) = 0 /\ ParentOf(u) = t
        /\ CallOf(t).op = "map_single" /\ CallOf(u).op = "map_single"
        /\ tasks[u].target # tasks[t].target
        /\ tasks[t].st = "resolved"
        /\ Returned(t, u)

\* the closures of the inner map_all calls (issued by a closure)
InnerTasks == {t \in TaskIds : ParentOf(t) # 0}

\* inner closures that have been invoked on shard k
InnerRunsOn(k) == {t \in InnerTasks : tasks[t].target = k /\ tasks[t].runs = 1}

\* the root has every result of its outer call
CommDone == calls # <<>> /\ Joined(1)

\* C15: in the shard-to-shard communication tests nothing panics, no
\* closure is invoked twice, and the run always reaches the point where
\* the root has joined its outer call; by then the inner closure has been
\* invoked N times on each of the N shards when every shard fanned out
\* (N*N in all), and once on each shard (N in all) when shard 0 alone did.
C15_ManyToManyCompletes ==
    /\ [](panicked = "none")
    /\ [](\A t \in TaskIds : tasks[t].runs <= 1)
    /\ [](CommDone =>
             LET outer == calls[1].n
             IN  /\ outer = (IF calls[1].op = "map_all" THEN get_count ELSE 1)
                 /\ Len(calls) = 1 + outer
                 /\ \A k \in Shards : Cardinality(InnerRunsOn(k)) = outer
                 /\ Cardinality(InnerTasks) = outer * get_count
                 /\ \A t \in InnerTasks : tasks[t].st = "resolved")
    /\ <>CommDone

\* C15 witness: with two shards and every shard fanning out to every shard,
\* the root has joined and four inner closures have run.
C15_Witness ==
    /\ get_count = MaxShards
    /\ CommDone
    /\ calls[1].op = "map_all"
    /\ Cardinality({t \in InnerTasks : tasks[t].runs = 1}) = MaxShards * MaxShards

\* the closure of t was invoked once if at all, and its future has
\* completed exactly when t is past the running state
OnceThenDone(t) ==
    /\ tasks[t].runs <= 1
    /\ Ran(t) => tasks[t].runs = 1
    /\ tasks[t].done <=> tasks[t].st \in {"completed", "resolved", "discarded"}

\* C16: a closure handed to submit_to is invoked at most once, on the shard
\* it was submitted to; the caller's future resolves only after the
\* closure's future completed, with exactly the value it produced; a
\* closure that returns the result of a nested submit_to hands that value
\* on unchanged.
C16_SubmitToOnce ==
    \A t \in TaskIds :
        tasks[t].via = "submit" =>
            /\ OnceThenDone(t)
            /\ Delivered(t)
            /\ \A u \in ChildrenOf(t) :
                   (tasks[u].via = "submit" /\ Returned(t, u)
                        /\ tasks[t].st = "resolved")
                       => tasks[t].got = tasks[u].got

\* C16 witness: submit_to nested in submit_to on the same shard, the outer
\* future resolved with the inner result (tests::test_submit_to_nested).
C16_Witness ==
    \E t, u \in TaskIds :
        /\ tasks[t].via = "submit" /\ tasks[u].via = "submit"
        /\ ParentOf(u) = t
        /\ tasks[u].target = tasks[t].target
        /\ Returned(t, u)
        /\ tasks[t].st = "resolved"
        /\ tasks[t].got = tasks[u].got

\* C17: when the transport reports a failure for a submitted closure the
\* caller has panicked: the future of that closure is still the submitted
\* one (not handed over again, its closure never invoked), it has no
\* result, and nothing runs after the panic.
C17_TransportFailurePanics ==
    /\ [](\A t \in TaskIds :
             tasks[t].failed =>
                 /\ panicked = "transport failed"
                 /\ tasks[t].st = "submitted"
                 /\ tasks[t].runs = 0
                 /\ ~tasks[t].done)
    /\ [][panicked = "none"]_vars

\* C17 witness: the transport failed for a cross-shard submit_to issued by
\* the root while another closure was running.
C17_Witness ==
    \E t, u \in TaskIds :
        /\ tasks[t].failed
        /\ tasks[t].via = "submit"
        /\ tasks[t].target # 0
        /\ ParentOf(t) = 0
        /\ tasks[u].st = "running"
        /\ panicked = "transport failed"

\* C18: a closure that is running on its target shard when the caller
\* drops the returned future is not cancelled: it stays running until it
\* completes, it can complete as soon as it waits for nothing, and when it
\* does its result is discarded, the guard released, and nothing panics.
C18_AbandonedClosureCompletes ==
    /\ [](\A t \in TaskIds :
             tasks[t].gone =>
                 /\ tasks[t].runs = 1
                 /\ tasks[t].st \in {"running", "discarded"}
                 /\ tasks[t].st = "discarded" => tasks[t].done
                 /\ (/\ Running
                     /\ tasks[t].st = "running"
                     /\ \A u \in ChildrenOf(t) : Settled(u))
                        => ENABLED Complete(t))
    /\ [][\A t \in AllTasks :
              (Complete(t) /\ tasks[t].gone) =>
                  /\ panicked' = "none"
                  /\ tasks'[t].st = "discarded"
                  /\ tasks'[t].got = tasks[t].got
                  /\ rwlock'[locks[tasks[t].target]].readers
                         = rwlock[locks[tasks[t].target]].readers - 1]_vars

\* C18 witness: a closure dropped the future of a dispatch it had issued
\* and went on to resolve; the dispatched closure completed all the same
\* and its result was discarded without a panic.
C18_Witness ==
    \E t \in TaskIds :
        /\ tasks[t].gone
        /\ tasks[t].st = "discarded"
        /\ ParentOf(t) # 0
        /\ tasks[ParentOf(t)].st = "resolved"
        /\ panicked = "none"

\* C19: a future given to spawn runs at most once, on the shard spawn was
\* called on, while the caller is still running (or is the root task); the
\* returned future resolves only after it completed, to its output; a
\* spawned future that returns the result of a nested spawn hands that
\* value on unchanged.
C19_SpawnOnceOnCallingShard ==
    \A t \in TaskIds :
        tasks[t].via = "spawn" =>
            /\ tasks[t].target = CallOf(t).from
            /\ tasks[t].target = this_shard_id(ParentOf(t))
            /\ OnceThenDone(t)
            /\ InFlight(t) => (ParentOf(t) = 0 \/ tasks[ParentOf(t)].st = "running")
            /\ tasks[t].st = "resolved" => (tasks[t].done /\ tasks[t].got = tasks[t].ret)
            /\ \A u \in ChildrenOf(t) :
                   (tasks[u].via = "spawn" /\ Returned(t, u)
                        /\ tasks[t].st = "resolved")
                       => (tasks[u].st = "resolved" /\ tasks[t].got = tasks[u].got)

\* C19 witness: a spawn nested in a spawn, the outer future resolved with
\* the inner output (tests::test_chained_spawn_int).
C19_Witness ==
    \E t, u \in TaskIds :
        /\ tasks[t].via = "spawn" /\ tasks[u].via = "spawn"
        /\ ParentOf(u) = t
        /\ Returned(t, u)
        /\ tasks[t].st = "resolved"
        /\ tasks[u].runs = 1

\* C20: once spawn has been called the future given to it has been handed
\* to the scheduler, whether or not the returned future is ever polled: no
\* spawned future is left waiting for a first poll, and none is dropped
\* without having run.
C20_SpawnStartsWhenCalled ==
    \A t \in TaskIds :
        tasks[t].via = "spawn" => tasks[t].st \notin {"created", "dropped"}

\* ------------------------------------------------- claims C21 .. C30
\* the call panicked on its first statement: nothing was dispatched,
\* spawned or constructed and no token changed
Rejected ==
    /\ panicked' = RuntimePanic
    /\ UNCHANGED <<phase, single, inst, value, maker_calls, stop_calls, locks,
                   rwlock, calls, tasks>>

\* C21: start, start_single and each of the eight mapping operations,
\* called while the runtime-active oracle is false, panic with the
\* runtime message and leave calls, futures, instances, maker counts and
\* tokens as they were; no instance exists before a start got past the
\* oracle.
C21_OracleFalseRejects ==
    /\ [](phase = "none" => \A k \in AllShards : inst[k] = "absent")
    /\ [][~engine_ready =>
             /\ (start \/ start_single) => Rejected
             /\ \A p \in AllCallers :
                    (\/ map_all(p) \/ map_all_mut(p)
                     \/ map_others(p) \/ map_others_mut(p)
                     \/ map_current(p) \/ map_current_mut(p)) => Rejected
             /\ \A p \in AllCallers, k \in AllShards :
                    (map_single(p, k) \/ map_single_mut(p, k)) => Rejected]_vars

\* C21 witness: on an active container with a closure running, a mapping
\* operation was called outside the runtime and panicked (no spawned
\* future is waiting for its first poll, so the panic is the call's).
C21_Witness ==
    /\ panicked = RuntimePanic
    /\ phase = "active"
    /\ ~engine_ready
    /\ \E t \in TaskIds : tasks[t].st = "running"
    /\ \A t \in TaskIds : tasks[t].st # "created"

\* C22: a submit_to future first polled while the runtime-active oracle is
\* false panics, and its closure is not handed to the transport.
C22_SubmitToRequiresRuntime ==
    [][\A t \in AllTasks :
          (Poll(t) /\ tasks[t].via = "submit" /\ ~engine_ready) =>
              (panicked' # "none" /\ tasks'[t].st = "created")]_vars

\* C23: during stop() an instance is freed only from the state its stop
\* hook left it in, on a shard whose hook ran exactly once; hooks run only
\* during stop() and only where an instance was made; and stop() has
\* resolved only when every instance that was made is stopped and freed.
C23_StopHookThenFree ==
    /\ [](\A k \in AllShards :
             /\ inst[k] \in {"stopped", "freed"} =>
                    (stop_calls[k] = 1 /\ maker_calls[k] = 1
                         /\ phase \in {"stopping", "stopped"})
             /\ inst[k] \in {"absent", "live"} => stop_calls[k] = 0
             /\ phase = "stopped" =>
                    inst[k] = (IF maker_calls[k] = 1 THEN "freed" ELSE "absent"))
    /\ [][\A k \in AllShards :
              (inst'[k] = "freed" /\ inst[k] # "freed") => inst[k] = "stopped"]_vars

\* C23 witness: in the middle of stop() one shard's instance is already
\* freed while another's hook has completed and its instance is not yet
\* freed.
C23_Witness ==
    /\ phase = "stopping"
    /\ \E j, k \in Shards : inst[j] = "freed" /\ inst[k] = "stopped"

C25_OneInstancePerShard ==
    phase = "active" =>
        \A k \in Shards : inst[k] = "live" /\ maker_calls[k] = 1

\* the shards the entry point that was called constructs on
Targeted == IF entry = "start_single" THEN {0} ELSE Shards

\* C25 amended: while the container is active exactly one instance exists
\* on each shard its start targeted (every shard after start, shard 0 alone
\* after start_single) and none on any other shard; the container becomes
\* active only when every targeted shard has constructed its instance.
C25_OneInstancePerTargetedShard ==
    /\ [](phase = "active" =>
             \A k \in AllShards :
                 IF k \in Targeted
                 THEN inst[k] = "live" /\ maker_calls[k] = 1
                 ELSE inst[k] = "absent" /\ maker_calls[k] = 0)
    /\ [][(phase = "starting" /\ phase' = "active") =>
              \A k \in Targeted : inst[k] = "live" /\ inst'[k] = "live"]_vars

\* C25 witness: an active container made by start_single on two shards,
\* with a closure running on shard 0 and no instance on shard 1.
C25_Witness ==
    /\ phase = "active"
    /\ entry = "start_single"
    /\ count = MaxShards
    /\ inst[1] = "absent"
    /\ \E t \in TaskIds : tasks[t].st = "running" /\ tasks[t].target = 0

\* C26: Gate::close() does not resolve while a GateHolder is alive; it
\* resolves once every holder was dropped, at once when there is none, and
\* holders may leave after close() was called
C26_CloseWaitsForHolders ==
    /\ [](gate.close = "resolved" => gate.closed /\ gate.holders = {})
    /\ [](gate.close = "pending" /\ Running
             => /\ gate.closed
                /\ (gate.holders = {} => ENABLED close_done)
                /\ \A h \in gate.holders : ENABLED leave(h))
    /\ [][gate'.close = "resolved" /\ gate.close # "resolved"
             => gate.close = "pending" /\ gate.holders = {}]_vars
    /\ [][gate.close = "pending" /\ gate.holders # {}
             => gate'.close = "pending" /\ gate'.holders \subseteq gate.holders]_vars

\* close() resolved although it began while three holders were alive
C26_Witness ==
    /\ gate.close = "resolved"
    /\ gate.waited = MaxEnters

\* C27: try_enter on an open gate returns a GateHolder next to the ones
\* alive; on a closed gate it returns GateClosedError and admits nobody
C27_TryEnterOpenOrClosed ==
    [][try_enter
         => IF gate.closed
            THEN /\ gate'.last = "GateClosedError"
                 /\ gate'.holders = gate.holders
            ELSE /\ gate'.last = "Ok"
                 /\ gate.holders \subseteq gate'.holders
                 /\ Cardinality(gate'.holders) = Cardinality(gate.holders) + 1]_vars

\* two holders coexist, and an entry after close() was refused
C27_Witness ==
    /\ gate.closed
    /\ gate.last = "GateClosedError"
    /\ Cardinality(gate.holders) = 2

\* the clock's advance since the timer was last armed, and the callbacks
\* that ran since then
Elapsed == clock_now - timer_log.since

Fired == timer.calls - timer_log.base

\* C28: a timer armed once for a delay d has run its callback 0 times while
\* the clock advanced by less than d and exactly once from then on, and is
\* no longer armed after it expired; a rearm of an armed timer replaces the
\* earlier expiration
C28_OneShotFiresOnce ==
    /\ [](timer_log.mode = "once" /\ ~timer_log.cancelled
            => IF Elapsed < timer_log.delay
               THEN Fired = 0 /\ armed /\ get_timeout = timer_log.since + timer_log.delay
               ELSE Fired = 1 /\ ~armed)
    /\ [][\A delta \in Delays :
             (arm(delta) \/ rearm(delta)) /\ panicked' = "none"
             => /\ timer_log'.mode = "once"
                /\ timer_log'.delay = delta
                /\ timer_log'.since = clock_now]_vars
    /\ [][\A delta \in Delays :
             rearm(delta) /\ assert_runtime_is_running => panicked' = "none"]_vars

\* a timer armed for the long delay and rearmed at once for a short one has
\* expired, once, and the clock is now past the replaced expiration
C28_Witness ==
    /\ timer_log.mode = "once"
    /\ ~timer_log.cancelled
    /\ timer_log.replaced = MaxDelay
    /\ timer_log.delay < MaxDelay
    /\ clock_now > MaxDelay
    /\ Fired = 1
    /\ ~armed

ExactResults ==
    LET a == arith.a
        b == arith.b
    IN CASE arith.op \in {"add", "instant_add"} -> {a + b}
         [] arith.op \in {"sub", "instant_sub", "instant_since"} -> {a - b}
         [] arith.op = "mul" -> {a * b}
         [] arith.op = "neg" -> {0 - a}
         [] arith.op = "div" ->
              {q \in MinInt - 1 .. MaxInt + 1 :
                  \E r \in MinInt .. MaxInt :
                      /\ a = q * b + r
                      /\ Abs(r) < Abs(b)
                      /\ (r = 0 \/ (r < 0) = (a < 0))}
         [] OTHER -> {}

\* C30: Duration and Instant arithmetic never wraps: the operator panics
\* exactly when the checked form returns None, which for +, -, * and unary
\* negation is exactly when the exact result is outside the signed range
\* and for / whenever the divisor is 0 (and when the quotient is out of
\* range); otherwise both forms return the exact result
C30_ArithmeticNeverWraps ==
    arith.op # "none"
    => /\ arith.result.panic = ~arith.checked.some
       /\ arith.op # "div"
            => (arith.result.panic = (\A x \in ExactResults : ~InRange(x)))
       /\ arith.op = "div"
            => /\ arith.b = 0 => arith.result.panic
               /\ arith.result.panic
                    = (arith.b = 0 \/ \A x \in ExactResults : ~InRange(x))
       /\ ~arith.result.panic
            => /\ arith.result.nanos = arith.checked.nanos
               /\ InRange(arith.result.nanos)
               /\ ExactResults = {arith.result.nanos}

\* the largest value plus one: the checked form is None, the operator panics
C30_Witness ==
    /\ arith.op = "add"
    /\ arith.a = MaxInt
    /\ arith.b = 1
    /\ arith.result.panic
    /\ ~arith.checked.some

\* ------------------------------------------------- claims C31 .. C40
\* the container exists: start_inner's future has built the Distributed
Built == phase \in {"active", "stopping", "stopped"}

\* C31: start and start_single allocate shard_count tokens, one distinct
\* token per shard, so that holders on one shard never touch another
\* shard's token
C31_OneTokenPerShard ==
    Built => /\ Cardinality(DOMAIN rwlock) = get_count
             /\ \A j, k \in Shards : j # k => locks[j] # locks[k]

\* the closures that have reached their target shard or run there
Transported(l) ==
    {t \in TaskIds : /\ tasks[t].st \in {"submitted", "running"}
                     /\ locks[tasks[t].target] = l}

\* C32: a mapping operation acquires the target shard's token on the
\* calling side, before the closure is transported: every closure under
\* way to its shard or running there holds the token
C32_TokenBeforeTransport ==
    Running => \A l \in DOMAIN rwlock :
                   rwlock[l].readers = Cardinality(Transported(l))

\* the closures that hold lock l: begun and not completed
GuardsOn(l) ==
    {t \in TaskIds : tasks[t].st = "running" /\ locks[tasks[t].target] = l}

\* C33: the token taken for a closure stays held until the closure's future
\* completes and is released then: the holders of a token are exactly the
\* closures that run, and with no closure in flight every token is free
C33_TokenScopedToClosure ==
    Running => /\ \A l \in DOMAIN rwlock :
                     /\ ~rwlock[l].writer
                     /\ rwlock[l].readers = Cardinality(GuardsOn(l))
               /\ (\A t \in TaskIds : tasks[t].st # "running")
                     => \A l \in DOMAIN rwlock : rwlock[l].readers = 0

\* a closure awaited a nested operation to its end, completed, and the
\* token it held is free again
C33_Witness ==
    /\ Running
    /\ \E t \in TaskIds :
           /\ tasks[t].done
           /\ \E u \in ChildrenOf(t) : tasks[u].st = "resolved"
    /\ \A l \in DOMAIN rwlock : rwlock[l].readers = 0

\* C34: no closure waits for a token: a closure that reached its shard can
\* start at once, and starting either takes the token or panics, also when
\* the closure that dispatched it holds the same shard's token
C34_NeverWaitsForToken ==
    /\ [](Running => \A t \in TaskIds :
                         tasks[t].st = "submitted" => ENABLED Begin(t))
    /\ [][\A t \in AllTasks :
             Begin(t) => tasks'[t].st = "running" \/ panicked' # "none"]_vars

\* a closure holding a shard's token dispatched a nested operation to the
\* same shard, and both run
C34_Witness ==
    /\ Running
    /\ \E t, u \in TaskIds :
           /\ u \in ChildrenOf(t)
           /\ tasks[u].target = tasks[t].target
           /\ tasks[t].st = "running"
           /\ tasks[u].st = "running"

\* a word is a sequence of letters
IsWord(w) == \A i \in 1 .. Len(w) : w[i] \in Lower

\* the requests a message begins with, by the grammar STORE$key$value\n and
\* LOAD$key\n, each with the bytes that follow it
FrontRequests(m) ==
    {x \in {[res |-> "Store", key |-> SubSeq(m, Len(STORE) + 1, i - 1),
             value |-> SubSeq(m, i + 1, j - 1),
             message |-> SubSeq(m, j + 1, Len(m))] :
                i \in 1 .. Len(m), j \in 1 .. Len(m)} :
        m = EncodeStore(x.key, x.value) \o x.message /\ IsWord(x.key) /\ IsWord(x.value)}
    \cup
    {x \in {[res |-> "Load", key |-> SubSeq(m, Len(LOAD) + 1, j - 1),
             value |-> <<>>,
             message |-> SubSeq(m, j + 1, Len(m))] : j \in 1 .. Len(m)} :
        m = EncodeLoad(x.key) \o x.message /\ IsWord(x.key)}

\* what try_parse_request returned last, as such a record
Parsed == [res |-> parse.res, key |-> parse.key, value |-> parse.value,
           message |-> parse.message]

\* the ways to end a request whose words are complete
Completions ==
    LET ends == {EncodeStore(<<>>, <<>>), EncodeLoad(<<>>)}
    IN {SubSeq(e, i, Len(e)) : e \in ends, i \in 1 .. Len(STORE) + 2}
           \ {<<>>}

\* m is a proper prefix of a well-formed request
RequestPrefix(m) ==
    \E s \in Completions :
        \E x \in FrontRequests(m \o s) : x.message = <<>> /\ FrontRequests(m) = {}

\* C35: when the message starts with a complete request, try_parse_request
\* returns that request and removes exactly it, through its newline, from
\* the front; on Ok(None) and on Err the message is left as it was
C35_ParseRemovesExactlyTheRequest ==
    parse.res # "none"
    => /\ FrontRequests(parse.before) # {}
            => Parsed \in FrontRequests(parse.before)
       /\ parse.res = "Store"
            => parse.before = EncodeStore(parse.key, parse.value) \o parse.message
       /\ parse.res = "Load"
            => parse.before = EncodeLoad(parse.key) \o parse.message
       /\ parse.res \in {"None", "Err"} => parse.message = parse.before

\* a STORE request was taken from the front and a second request is left
C35_Witness ==
    /\ parse.res = "Store"
    /\ parse.key = <<"a">>
    /\ parse.value = <<"b">>
    /\ parse.message = EncodeLoad(<<"a">>)

\* C36: a proper prefix of a well-formed request is never an error but
\* Ok(None), after the rest arrived the request it encodes is returned,
\* and a message that neither is such a prefix nor starts with a request
\* is a ConnectionError
C36_FragmentationInsensitive ==
    parse.res # "none"
    => /\ RequestPrefix(parse.before) => parse.res = "None"
       /\ (parse.res = "Err")
            = (~RequestPrefix(parse.before) /\ FrontRequests(parse.before) = {})
       /\ parse.waited /\ FrontRequests(parse.before) # {}
            => Parsed \in FrontRequests(parse.before)

\* a request that arrived in two fragments was returned after the second
C36_Witness ==
    /\ parse.waited
    /\ parse.res = "Store"
    /\ parse.key = <<"a">>
    /\ parse.value = <<"b">>
    /\ parse.message = <<>>

\* the requests of the peer that arrived whole
Arrived(c) == Cardinality({i \in 1 .. Len(Conn(c).ends) : Conn(c).ends[i] <= Conn(c).rcvd})

\* resp is a response to request r
AnswerTo(r, resp) ==
    IF r.res = "Store" THEN resp = DONE
    ELSE resp = NOTFOUND \/ \E val \in Words : resp = FOUND(val)

\* C37: after a failed read, end of stream, a malformed message or a failed
\* response the handler processes no further request of the connection and
\* closes its output stream exactly once; the requests that arrived before
\* the failure were answered in the order of their arrival
C37_FailureEndsConnection ==
    /\ [](\A c \in DOMAIN kv.conns :
            /\ Conn(c).closes <= 1
            /\ (Conn(c).closes = 1) = (Conn(c).pc = "closed")
            /\ Conn(c).fail # "none" => Conn(c).pc \in {"close", "closed"}
            /\ Conn(c).pc \in {"close", "closed"} => Conn(c).fail # "none"
            /\ Len(Conn(c).out) <= Len(Conn(c).sent)
            /\ \A i \in 1 .. Len(Conn(c).out) : AnswerTo(Conn(c).sent[i], Conn(c).out[i])
            /\ Conn(c).fail \in {"read", "eof", "malformed"}
                    => Len(Conn(c).out) = Arrived(c)
            /\ Conn(c).fail = "write" => Len(Conn(c).out) < Arrived(c))
    /\ [][\A c \in DOMAIN kv.conns :
            Conn(c).fail # "none"
            => /\ kv'.conns[c].out = Conn(c).out
               /\ kv'.conns[c].taken = Conn(c).taken
               /\ kv'.conns[c].message = Conn(c).message
               /\ kv'.conns[c].fail = Conn(c).fail]_vars

\* two requests that arrived with a byte of no request after them were
\* answered, then the connection was closed
C37_Witness ==
    \E c \in DOMAIN kv.conns :
        /\ Conn(c).fail = "malformed"
        /\ Conn(c).closes = 1
        /\ Conn(c).out = <<NOTFOUND, DONE>>

\* C38: every key has one storing shard in [0, get_count), the same from
\* every shard: a key is only ever in the db of that shard, a LOAD answers
\* FOUND with the value stored last, from whichever shard it is issued, it
\* never answers NOTFOUND once a STORE of the key was answered DONE, and it
\* answers NOTFOUND when the key was never stored
C38_RoutingByKey ==
    /\ \A key \in DOMAIN kv.hash :
            /\ get_storing_shard_id(key) \in Shards
            /\ HashMap_get(kv.db[get_storing_shard_id(key)], key) = HashMap_get(kv.last, key)
    /\ \A s \in AllShards : \A q \in kv.db[s] : s = get_storing_shard_id(q[1])
    /\ \A c \in DOMAIN kv.conns :
            /\ Conn(c).pc = "respond" /\ Conn(c).req.res = "Store" => Conn(c).resp = DONE
            /\ Conn(c).pc = "respond" /\ Conn(c).req.res = "Load"
                    => /\ Conn(c).result = Conn(c).expect
                       /\ Conn(c).must_find => Conn(c).result # {}
                       /\ Conn(c).resp = IF Conn(c).expect = {} THEN NOTFOUND
                                         ELSE FOUND(CHOOSE val \in Conn(c).expect : TRUE)

\* a LOAD issued on one shard, after two STOREs on a connection of the other
\* shard were answered, finds the second value on the storing shard
C38_Witness ==
    /\ DOMAIN kv.conns = ConnIds
    /\ Conn(1).out = <<DONE, DONE>>
    /\ Conn(1).sent[2].value = <<"b">>
    /\ Conn(2).pc = "respond"
    /\ Conn(2).must_find
    /\ Conn(2).resp = FOUND(<<"b">>)
    /\ Conn(2).shard # Conn(1).shard
    /\ Conn(2).shard # get_storing_shard_id(<<"a">>)

\* C39: for every socket accepted on a shard a handler of the connection
\* is run on that shard while the loop goes on accepting: the future of the
\* handler is never discarded without having been started
C39_AcceptedSocketIsHandled ==
    \A k \in 1 .. Len(kv.socks) : kv.socks[k].handler # "dropped"

\* the closure of t is in the hands of the transport: boxed, not yet
\* invoked, no failure reported
InTransport(t) == tasks[t].st = "submitted" /\ ~tasks[t].failed /\ tasks[t].runs = 0

====
